---- MODULE Spec2Model ----
(***************************************************************************)
(* A model of fingerprint-go: the Bayesian sampling engine (package        *)
(* bayesian), the constraint closure and the header generator's            *)
(* relaxation protocol.                                                    *)
(*                                                                         *)
(* Go values of type `any` found in a conditional probability table are    *)
(* tagged records: F(w) is a float64 weight, M(f) a map[string]any.        *)
(* Weights are integers in units of 1/One, so that 1.0 is One.             *)
(* A Go map is a function whose DOMAIN is its key set; the order in which  *)
(* `range` visits a map is a nondeterministic choice of a permutation.     *)
(***************************************************************************)
EXTENDS Integers, Sequences, FiniteSets, TLC

\* ------------------------------------------------------------------ bounds

\* Longest allowed-value list of a constraint map that is tried.
MaxListLen == 2

\* Longest list of locales over the whole alphabet of locales that is tried.
MaxLocaleListLen == 3

\* Longest list of locales that is tried (lists of one repeated locale).
MaxLocales == 12

\* The longest list of requested browsers that is tried.
MaxBrowsers == 2

\* The weight that stands for the float 1.0 (Node.Sample's totalProbability).
One == 2

\* ------------------------------------------------------- Go values and maps

F(w) == [t |-> "float", w |-> w, m |-> <<>>]
M(f) == [t |-> "map", w |-> 0, m |-> f]
IsMap(v) == v.t = "map"
IsFloat(v) == v.t = "float"

\* A leaf of a CPT: value -> weight.
Leaf(f) == M([k \in DOMAIN f |-> F(f[k])])

\* An internal level of a CPT with a "deeper" child only, or with both.
Deeper(f) == M("deeper" :> M(f))
DeeperSkip(f, s) == M(("deeper" :> M(f)) @@ ("skip" :> s))
Skip(s) == M("skip" :> s)

EmptyMap == <<>>

\* m[k] of a map[string]string: the zero value "" for a missing key.
MapGet(m, k) == IF k \in DOMAIN m THEN m[k] ELSE ""

\* m[k] of a map[string][]string: nil (length 0) for a missing key.
MapGetList(m, k) == IF k \in DOMAIN m THEN m[k] ELSE <<>>

\* m[k] = v on a Go map.
MapPut(m, k, v) == [x \in DOMAIN m \cup {k} |-> IF x = k THEN v ELSE m[x]]

\* delete(m, k) on a Go map.
MapDelete(m, k) == [x \in DOMAIN m \ {k} |-> m[x]]

slicesContains(slice, val) == \E i \in DOMAIN slice : slice[i] = val

\* The orders in which `range` may visit the keys S of a map.
RangeOrders(S) ==
    {s \in [1..Cardinality(S) -> S] : \A i, j \in DOMAIN s : s[i] = s[j] => i = j}

SeqToSet(s) == {s[i] : i \in DOMAIN s}

\* ------------------------------------------------------------ the networks

\* NodeDefinition (name, parentNames, possibleValues, conditionalProbabilities).
NodeDef(name, parentNames, possibleValues, cpt) ==
    [name |-> name, parentNames |-> parentNames,
     possibleValues |-> possibleValues, cpt |-> cpt]

\* A network is its NodesInSamplingOrder; NodesByName is derived from it.

\* A missing, empty or unparseable archive: NewNetwork returns no nodes.
NetEmpty == <<>>

\* One root node.
NetSingle ==
    << NodeDef("A", <<>>, <<"x", "y">>, Leaf(("x" :> 1) @@ ("y" :> 1))) >>

\* A chain A -> B -> C in which C = y forces B = y and B = y forces A = y.
NetChain ==
    << NodeDef("A", <<>>, <<"x", "y">>, Leaf(("x" :> 1) @@ ("y" :> 1))),
       NodeDef("B", <<"A">>, <<"x", "y">>,
               Deeper(("x" :> Leaf("x" :> 2)) @@ ("y" :> Leaf("y" :> 2)))),
       NodeDef("C", <<"B">>, <<"x", "y">>,
               Deeper(("x" :> Leaf("x" :> 2))
                      @@ ("y" :> Leaf(("x" :> 1) @@ ("y" :> 1))))) >>

\* B branches on A = x and falls back to a skip subtree otherwise.
NetSkip ==
    << NodeDef("A", <<>>, <<"x", "y">>, Leaf(("x" :> 1) @@ ("y" :> 1))),
       NodeDef("B", <<"A">>, <<"x", "y">>,
               DeeperSkip("x" :> Leaf("x" :> 2), Leaf("y" :> 2))) >>

\* B ignores its parent: a skip at its only level.
NetSkipOnly ==
    << NodeDef("A", <<>>, <<"x", "y">>, Leaf(("x" :> 1) @@ ("y" :> 1))),
       NodeDef("B", <<"A">>, <<"x", "y">>,
               Skip(Leaf(("x" :> 1) @@ ("y" :> 1)))) >>

\* C has two parents; the combinations (A = y, B = y) was never observed, so
\* C's table has no entry for it.
NetTwoParents ==
    << NodeDef("A", <<>>, <<"x", "y">>, Leaf(("x" :> 1) @@ ("y" :> 1))),
       NodeDef("B", <<>>, <<"x", "y">>, Leaf(("x" :> 1) @@ ("y" :> 1))),
       NodeDef("C", <<"A", "B">>, <<"x", "y">>,
               Deeper(("x" :> Deeper(("x" :> Leaf("x" :> 2))
                                     @@ ("y" :> Leaf("y" :> 2))))
                      @@ ("y" :> Deeper("x" :> Leaf(("x" :> 1) @@ ("y" :> 1)))))) >>

\* Leaves with zero weights and leaves that do not sum to 1.0.
NetWeights ==
    << NodeDef("A", <<>>, <<"x", "y">>, Leaf(("x" :> 0) @@ ("y" :> 1))),
       NodeDef("B", <<"A">>, <<"x", "y">>,
               Deeper(("x" :> Leaf(("x" :> 0) @@ ("y" :> 0)))
                      @@ ("y" :> Leaf(("x" :> 3) @@ ("y" :> 0))))) >>

\* B's table offers x under a value of A that A itself never takes, besides
\* a skip subtree that serves every other value of A.
NetSparse ==
    << NodeDef("A", <<>>, <<"x", "y">>, Leaf("y" :> 2)),
       NodeDef("B", <<"A">>, <<"x", "y">>,
               DeeperSkip("x" :> Leaf("x" :> 2), Leaf(("x" :> 1) @@ ("y" :> 1)))) >>

Networks ==
    {NetEmpty, NetSingle, NetChain, NetSkip, NetSkipOnly, NetTwoParents,
     NetWeights, NetSparse}

NodeNames(network) == {network[i].name : i \in DOMAIN network}

\* NodesByName[name] (the last node of that name, as the loader's map keeps it).
NodeByName(network, name) ==
    network[CHOOSE i \in DOMAIN network :
                /\ network[i].name = name
                /\ \A j \in DOMAIN network : network[j].name = name => j <= i]

\* ------------------------------------------------------------- CPT lookup

\* Variant of WalkCPT: the skip subtree is taken before deeper is looked at.
RECURSIVE WalkCPTSkipFirst(_, _, _, _)
WalkCPTSkipFirst(probabilities, parentNames, i, parentValues) ==
    IF i > Len(parentNames) \/ ~IsMap(probabilities) THEN probabilities
    ELSE LET m == probabilities.m
             parentValue == MapGet(parentValues, parentNames[i])
             hasDeeper == "deeper" \in DOMAIN m /\ IsMap(m["deeper"])
             hasSkip == "skip" \in DOMAIN m
         IN  IF hasSkip
             THEN WalkCPTSkipFirst(m["skip"], parentNames, i + 1, parentValues)
             ELSE IF hasDeeper /\ parentValue \in DOMAIN m["deeper"].m
             THEN WalkCPTSkipFirst(m["deeper"].m[parentValue], parentNames, i + 1,
                                   parentValues)
             ELSE probabilities

\* The loop of getProbabilitiesGivenKnownValues from parent i onward.
RECURSIVE WalkCPT(_, _, _, _)
WalkCPT(probabilities, parentNames, i, parentValues) ==
    IF i > Len(parentNames) \/ ~IsMap(probabilities) THEN probabilities
    ELSE LET m == probabilities.m
             parentValue == MapGet(parentValues, parentNames[i])
             hasDeeper == "deeper" \in DOMAIN m /\ IsMap(m["deeper"])
             hasSkip == "skip" \in DOMAIN m
         IN  IF hasDeeper /\ parentValue \in DOMAIN m["deeper"].m
             THEN WalkCPT(m["deeper"].m[parentValue], parentNames, i + 1, parentValues)
             ELSE IF hasSkip
             THEN WalkCPT(m["skip"], parentNames, i + 1, parentValues)
             ELSE probabilities

\* The distribution of node n given the values assigned so far: the keys of
\* the reached subtree whose values are floats.
getProbabilitiesGivenKnownValues(n, parentValues) ==
    LET probabilities == WalkCPT(n.cpt, n.parentNames, 1, parentValues)
    IN  IF IsMap(probabilities)
        THEN [k \in {k \in DOMAIN probabilities.m : IsFloat(probabilities.m[k])}
                 |-> probabilities.m[k].w]
        ELSE EmptyMap

\* probabilities[v] of a map[string]float64: 0 for a missing key.
Weight(probabilities, v) == IF v \in DOMAIN probabilities THEN probabilities[v] ELSE 0

\* ------------------------------------------------------------ node sampler

\* The values rand.Float64() * totalProbability can take, up to the
\* comparisons made with it: weights are whole, so an anchor in [k, k+1)
\* compares like k.
Anchors(totalProbability) ==
    IF totalProbability <= 0 THEN {0} ELSE 0..(totalProbability - 1)

\* Variant of ChooseFrom: the empty string, not the first value, when no
\* running sum exceeds the anchor.
RECURSIVE ChooseFromOrNothing(_, _, _, _, _)
ChooseFromOrNothing(possibleValues, i, cumulativeProbability, anchor, probabilities) ==
    IF i > Len(possibleValues) THEN ""
    ELSE LET c == cumulativeProbability + Weight(probabilities, possibleValues[i])
         IN  IF c > anchor THEN possibleValues[i]
             ELSE ChooseFromOrNothing(possibleValues, i + 1, c, anchor, probabilities)

\* The loop of sampleRandomValueFromPossibilities from index i onward.
RECURSIVE ChooseFrom(_, _, _, _, _)
ChooseFrom(possibleValues, i, cumulativeProbability, anchor, probabilities) ==
    IF i > Len(possibleValues) THEN possibleValues[1]
    ELSE LET c == cumulativeProbability + Weight(probabilities, possibleValues[i])
         IN  IF c > anchor THEN possibleValues[i]
             ELSE ChooseFrom(possibleValues, i + 1, c, anchor, probabilities)

\* The values sampleRandomValueFromPossibilities can return.
sampleRandomValueFromPossibilities(possibleValues, totalProbability, probabilities) ==
    IF Len(possibleValues) = 0 THEN {""}
    ELSE {ChooseFrom(possibleValues, 1, 0, anchor, probabilities) :
              anchor \in Anchors(totalProbability)}

\* The values Node.Sample can return.
NodeSample(n, parentValues) ==
    LET probabilities == getProbabilitiesGivenKnownValues(n, parentValues)
    IN  UNION {sampleRandomValueFromPossibilities(possibleValues, One, probabilities) :
                   possibleValues \in RangeOrders(DOMAIN probabilities)}

RECURSIVE SumWeights(_, _)
SumWeights(probabilities, values) ==
    IF Len(values) = 0 THEN 0
    ELSE Weight(probabilities, Head(values)) + SumWeights(probabilities, Tail(values))

\* Variant of ValidValues: the allowed list is not consulted.
ValidValuesUnrestricted(valuesInDistribution, valuePossibilities, bannedValues) ==
    SelectSeq(valuesInDistribution, LAMBDA value : ~slicesContains(bannedValues, value))

\* Variant of ValidValues: nothing is valid once a value has been banned.
ValidValuesOneTry(valuesInDistribution, valuePossibilities, bannedValues) ==
    LET possibleValues == IF Len(valuePossibilities) = 0 THEN valuesInDistribution
                          ELSE valuePossibilities
    IN  SelectSeq(possibleValues,
                  LAMBDA value : /\ Len(bannedValues) = 0
                                 /\ slicesContains(valuesInDistribution, value))

\* Variant of ValidValues: an allowed value need not be in the distribution.
ValidValuesOutsideDistribution(valuesInDistribution, valuePossibilities, bannedValues) ==
    LET possibleValues == IF Len(valuePossibilities) = 0 THEN valuesInDistribution
                          ELSE valuePossibilities
    IN  SelectSeq(possibleValues, LAMBDA value : ~slicesContains(bannedValues, value))

\* validValues of SampleAccordingToRestrictions for one iteration order.
ValidValues(valuesInDistribution, valuePossibilities, bannedValues) ==
    LET possibleValues == IF Len(valuePossibilities) = 0 THEN valuesInDistribution
                          ELSE valuePossibilities
    IN  SelectSeq(possibleValues,
                  LAMBDA value : /\ ~slicesContains(bannedValues, value)
                                 /\ slicesContains(valuesInDistribution, value))

\* The values Node.SampleAccordingToRestrictions can return ("" when no
\* value is valid).
SampleAccordingToRestrictions(n, parentValues, valuePossibilities, bannedValues) ==
    LET probabilities == getProbabilitiesGivenKnownValues(n, parentValues)
    IN  UNION {LET validValues == ValidValues(valuesInDistribution, valuePossibilities,
                                              bannedValues)
               IN  IF Len(validValues) = 0 THEN {""}
                   ELSE sampleRandomValueFromPossibilities(
                            validValues, SumWeights(probabilities, validValues),
                            probabilities) :
               valuesInDistribution \in RangeOrders(DOMAIN probabilities)}

\* ------------------------------------------------------------------ inputs

\* The value alphabet of the networks above.
Vals == {"x", "y"}

\* A key that names no node of any network.
UnknownKey == "U"

RECURSIVE SeqsUpTo(_, _)
SeqsUpTo(S, n) ==
    IF n = 0 THEN {<<>>}
    ELSE LET shorter == SeqsUpTo(S, n - 1)
         IN  shorter \cup {Append(s, v) : s \in {t \in shorter : Len(t) = n - 1}, v \in S}

\* The allowed-value lists tried, the empty list among them.
Lists == SeqsUpTo(Vals, MaxListLen)

\* The constraint maps (map[string][]string) tried on a network: any keys
\* among its node names, each with any list; and, beside at most one such
\* key, UnknownKey with an empty or a one-element list.
ConstraintMaps(network) ==
    LET onNodes == UNION {[K -> Lists] : K \in SUBSET NodeNames(network)}
    IN  onNodes \cup
        {MapPut(P, UnknownKey, l) :
             P \in {Q \in onNodes : Cardinality(DOMAIN Q) <= 1},
             l \in {<<>>, <<"x">>}}

\* The seeds (map[string]string) tried with GenerateSample: a value of the
\* alphabet, or one outside every domain, for any keys.
SeedVals == Vals \cup {"w"}
SeedMaps(network) ==
    UNION {[K -> SeedVals] : K \in SUBSET (NodeNames(network) \cup {UnknownKey})}

\* ------------------------------------------------------ constraint closure

ArrayIntersection(a, b) == SelectSeq(a, LAMBDA x : slicesContains(b, x))

\* Undeeper: "skip" subtrees are dropped and the children of "deeper" are
\* hoisted one level up. (No table of the model has a key beside "deeper"
\* that is also a key inside it, so the iteration order does not show.)
RECURSIVE Undeeper(_)
Undeeper(obj) ==
    IF ~IsMap(obj) THEN obj
    ELSE LET m == obj.m
             plain == DOMAIN m \ {"skip", "deeper"}
             deeperMap == IF "deeper" \in DOMAIN m THEN Undeeper(m["deeper"]) ELSE F(0)
             hoisted == IF IsMap(deeperMap) THEN deeperMap.m ELSE EmptyMap
         IN  M([k \in plain \cup DOMAIN hoisted |->
                    IF k \in DOMAIN hoisted THEN hoisted[k] ELSE Undeeper(m[k])])

\* Variant of RecordPath: only the first match is recorded.
RecordFirstPathOnly(foundPaths, acc) ==
    IF Len(foundPaths) = 0 THEN [i \in 1..Len(acc) |-> <<acc[i]>>] ELSE foundPaths

\* One match of the walk: foundPaths after the accumulator acc is recorded.
\* The first match seeds one list per position; a later one is zipped in,
\* position by position, up to the shorter of the two.
RecordPath(foundPaths, acc) ==
    IF Len(foundPaths) = 0
    THEN [i \in 1..Len(acc) |-> <<acc[i]>>]
    ELSE LET n == IF Len(foundPaths) < Len(acc) THEN Len(foundPaths) ELSE Len(acc)
         IN  [i \in 1..n |-> IF slicesContains(foundPaths[i], acc[i])
                             THEN foundPaths[i]
                             ELSE Append(foundPaths[i], acc[i])]

\* The sequences of accumulators that dfs can record, in visiting order: the
\* keys of each map are visited in any order.
RECURSIVE Visits(_, _, _)
RECURSIVE VisitKeys(_, _, _, _, _)
Visits(t, acc, validKeys) ==
    IF ~IsMap(t) THEN {<<>>}
    ELSE UNION {VisitKeys(t.m, order, 1, acc, validKeys) :
                    order \in RangeOrders(DOMAIN t.m)}
VisitKeys(m, order, i, acc, validKeys) ==
    IF i > Len(order) THEN {<<>>}
    ELSE LET key == order[i]
             val == m[key]
             here == IF ~IsMap(val)
                     THEN IF slicesContains(validKeys, key) THEN {<<acc>>} ELSE {<<>>}
                     ELSE Visits(val, Append(acc, key), validKeys)
         IN  {a \o b : a \in here, b \in VisitKeys(m, order, i + 1, acc, validKeys)}

RECURSIVE FoldVisits(_, _, _)
FoldVisits(foundPaths, visits, i) ==
    IF i > Len(visits) THEN foundPaths
    ELSE FoldVisits(RecordPath(foundPaths, visits[i]), visits, i + 1)

\* The values filterByLastLevelKeys can return.
filterByLastLevelKeys(tree, validKeys) ==
    {FoldVisits(<<>>, visits, 1) : visits \in Visits(tree, <<>>, validKeys)}

\* Variant of ConstraintSet: the constrained key itself is left out.
ConstraintSetParentsOnly(node, key, values, zippedValues) ==
    LET n == IF Len(zippedValues) < Len(node.parentNames)
             THEN Len(zippedValues) ELSE Len(node.parentNames)
    IN  [name \in {node.parentNames[i] : i \in 1..n} |->
            zippedValues[CHOOSE i \in 1..n : node.parentNames[i] = name]]

\* The set built for one constraint: parentNames[i] -> zippedValues[i], then
\* key -> values.
ConstraintSet(node, key, values, zippedValues) ==
    LET n == IF Len(zippedValues) < Len(node.parentNames)
             THEN Len(zippedValues) ELSE Len(node.parentNames)
        last(name) == CHOOSE i \in 1..n :
                          /\ node.parentNames[i] = name
                          /\ \A j \in 1..n : node.parentNames[j] = name => j <= i
        parents == [name \in {node.parentNames[i] : i \in 1..n} |->
                        zippedValues[last(name)]]
    IN  MapPut(parents, key, values)

\* Variant of RefusesEmpty: the list is tested after the node was found.
RefusesEmptyOfKnownNode(network, key, values) ==
    Len(values) = 0 /\ key \in NodeNames(network)

\* The empty list of a constraint is refused before the node is looked up.
RefusesEmpty(network, key, values) == Len(values) = 0

\* The first loop of GetConstraintClosure from position i of the iteration
\* order onward: the outcomes (err, sets, foundMatchingValues) it can have.
RECURSIVE CollectSets(_, _, _, _, _, _)
CollectSets(network, possibleValues, order, i, sets, foundMatchingValues) ==
    IF i > Len(order)
    THEN {[err |-> FALSE, sets |-> sets, found |-> foundMatchingValues]}
    ELSE LET key == order[i]
             values == possibleValues[key]
         IN  IF RefusesEmpty(network, key, values)
             THEN {[err |-> TRUE, sets |-> sets, found |-> foundMatchingValues]}
             ELSE IF key \notin NodeNames(network)
             THEN CollectSets(network, possibleValues, order, i + 1, sets,
                              foundMatchingValues)
             ELSE LET node == NodeByName(network, key)
                  IN  UNION {CollectSets(
                                 network, possibleValues, order, i + 1,
                                 Append(sets, ConstraintSet(node, key, values, zippedValues)),
                                 foundMatchingValues \/ Len(zippedValues) > 0) :
                             zippedValues \in
                                 filterByLastLevelKeys(Undeeper(node.cpt), values)}

\* What GetConstraintClosure returns with an error: no map.
OverConstrained(sets) == [err |-> TRUE, result |-> EmptyMap, sets |-> sets]

\* Variant of NoClosureInformation: no path anywhere counts as an error.
NoPathIsAnError(sets) == [err |-> TRUE, result |-> EmptyMap, sets |-> sets]

\* What it returns when no constraint found a path: the empty map, no error.
NoClosureInformation(sets) == [err |-> FALSE, result |-> EmptyMap, sets |-> sets]

\* The second loop from set i onward: the lists of a name are intersected
\* across the sets; an empty list ends the call with the error.
RECURSIVE IntersectSets(_, _, _)
IntersectSets(sets, i, result) ==
    IF i > Len(sets) THEN [err |-> FALSE, result |-> result, sets |-> sets]
    ELSE LET set == sets[i]
             merged == [k \in DOMAIN result \cup DOMAIN set |->
                           IF k \notin DOMAIN set THEN result[k]
                           ELSE IF k \in DOMAIN result
                           THEN ArrayIntersection(result[k], set[k])
                           ELSE set[k]]
         IN  IF \E k \in DOMAIN set : Len(merged[k]) = 0
             THEN OverConstrained(sets)
             ELSE IntersectSets(sets, i + 1, merged)

\* The outcomes GetConstraintClosure can have: (err, result) and, for
\* reference, the per-constraint sets it built.
GetConstraintClosure(network, possibleValues) ==
    UNION {{IF c.err THEN OverConstrained(c.sets)
            ELSE IF ~c.found THEN NoClosureInformation(c.sets)
            ELSE IntersectSets(c.sets, 1, EmptyMap) :
            c \in CollectSets(network, possibleValues, order, 1, <<>>, FALSE)} :
           order \in RangeOrders(DOMAIN possibleValues)}

\* ----------------------------------------- header generator: values, options

\* A Go slice: nil, or a list of elements (possibly none).
NilSlice == [isNil |-> TRUE, elems |-> <<>>]
SliceOf(elems) == [isNil |-> FALSE, elems |-> elems]

SupportedBrowsers == <<"chrome", "firefox", "safari", "edge">>
SupportedOperatingSystems == <<"windows", "macos", "linux", "android", "ios">>

BrowserHttpNodeName == "*BROWSER_HTTP"
OperatingSystemNodeName == "*OPERATING_SYSTEM"
DeviceNodeName == "*DEVICE"
MissingValueDatasetToken == "*MISSING_VALUE*"

Http1SecFetchAttributes ==
    [mode |-> "Sec-Fetch-Mode", dest |-> "Sec-Fetch-Dest",
     site |-> "Sec-Fetch-Site", user |-> "Sec-Fetch-User"]

Http2SecFetchAttributes ==
    [mode |-> "sec-fetch-mode", dest |-> "sec-fetch-dest",
     site |-> "sec-fetch-site", user |-> "sec-fetch-user"]

relaxationOrder ==
    <<"locales", "devices", "operatingSystems", "browsers", "browserListQuery">>

\* An element of Browsers ([]any): a string, or a BrowserSpecification.
BrowserString(v) ==
    [isString |-> TRUE, Name |-> v, MinVersion |-> 0, MaxVersion |-> 0,
     HttpVersion |-> ""]

BrowserSpecification(Name, MinVersion, MaxVersion, HttpVersion) ==
    [isString |-> FALSE, Name |-> Name, MinVersion |-> MinVersion,
     MaxVersion |-> MaxVersion, HttpVersion |-> HttpVersion]

HeaderGeneratorOptions(Browsers, BrowserListQuery, OperatingSystems, Devices, Locales, HttpVersion, Strict) ==
    [Browsers |-> Browsers, BrowserListQuery |-> BrowserListQuery,
     OperatingSystems |-> OperatingSystems, Devices |-> Devices,
     Locales |-> Locales, HttpVersion |-> HttpVersion, Strict |-> Strict]

\* The zero value of HeaderGeneratorOptions.
ZeroOptions == HeaderGeneratorOptions(NilSlice, "", NilSlice, NilSlice, NilSlice, "", FALSE)

DefaultHeaderGeneratorOptions ==
    HeaderGeneratorOptions(
        SliceOf(<<BrowserString("chrome"), BrowserString("edge"),
                  BrowserString("firefox"), BrowserString("safari")>>),
        "", SliceOf(SupportedOperatingSystems), SliceOf(<<"desktop">>),
        SliceOf(<<"en-US">>), "2", FALSE)

\* The merge both NewHeaderGenerator and GetHeaders perform: every class the
\* given options set replaces the stored one, and Strict is always taken
\* from the given options when there are any.
MergeOptions(stored, hasOptions, options) ==
    IF ~hasOptions THEN stored
    ELSE HeaderGeneratorOptions(
             IF ~options.Browsers.isNil THEN options.Browsers ELSE stored.Browsers,
             IF options.BrowserListQuery # "" THEN options.BrowserListQuery
                                              ELSE stored.BrowserListQuery,
             IF ~options.OperatingSystems.isNil THEN options.OperatingSystems
                                                ELSE stored.OperatingSystems,
             IF ~options.Devices.isNil THEN options.Devices ELSE stored.Devices,
             IF ~options.Locales.isNil THEN options.Locales ELSE stored.Locales,
             IF options.HttpVersion # "" THEN options.HttpVersion
                                         ELSE stored.HttpVersion,
             options.Strict)

\* strings.Split(s, "|") on the strings of the dataset.
SplitOnBar(s) ==
    CASE s = "chrome/120|2" -> <<"chrome/120", "2">>
      [] s = "chrome/80|1" -> <<"chrome/80", "1">>
      [] s = "chrome/80|2" -> <<"chrome/80", "2">>
      [] s = "firefox/60|2" -> <<"firefox/60", "2">>
      [] s = "safari/17|2" -> <<"safari/17", "2">>
      [] s = "*MISSING_VALUE*|2" -> <<"*MISSING_VALUE*", "2">>
      [] OTHER -> <<s>>

\* strings.Split(s, "/") on the strings of the dataset.
SplitOnSlash(s) ==
    CASE s = "chrome/120" -> <<"chrome", "120">>
      [] s = "chrome/80" -> <<"chrome", "80">>
      [] s = "firefox/60" -> <<"firefox", "60">>
      [] s = "safari/17" -> <<"safari", "17">>
      [] OTHER -> <<s>>

\* strings.Split(s, ".") and strconv.Atoi of every part.
VersionParts(s) ==
    CASE s = "120" -> <<120>>
      [] s = "80" -> <<80>>
      [] s = "60" -> <<60>>
      [] s = "17" -> <<17>>
      [] OTHER -> <<0>>

HttpBrowserObject(Name, Version, CompleteString, HttpVersion) ==
    [Name |-> Name, Version |-> Version, CompleteString |-> CompleteString,
     HttpVersion |-> HttpVersion]

prepareBrowserObject(browserString) ==
    LET nameVersionSplit == SplitOnSlash(browserString)
    IN  HttpBrowserObject(
            nameVersionSplit[1],
            IF Len(nameVersionSplit) > 1 THEN VersionParts(nameVersionSplit[2])
                                         ELSE <<>>,
            browserString, "")

prepareHttpBrowserObject(httpBrowserString) ==
    LET parts == SplitOnBar(httpBrowserString)
        browserString == parts[1]
        httpVersion == IF Len(parts) > 1 THEN parts[2] ELSE ""
        browserObject ==
            IF browserString = MissingValueDatasetToken
            THEN HttpBrowserObject(MissingValueDatasetToken, <<>>, "", "")
            ELSE prepareBrowserObject(browserString)
    IN  [browserObject EXCEPT !.HttpVersion = httpVersion,
                              !.CompleteString = httpBrowserString]

\* GetBrowsersFromQuery returns the supported browsers whatever the query.
GetBrowsersFromQuery(query) == SupportedBrowsers

prepareBrowsersConfig(browsers, browserListQuery, httpVersion) ==
    LET bq == GetBrowsersFromQuery(browserListQuery)
        finalBrowsers ==
            IF browserListQuery # ""
            THEN [i \in DOMAIN bq |-> BrowserString(bq[i])]
            ELSE browsers.elems
    IN  [i \in DOMAIN finalBrowsers |->
            LET v == finalBrowsers[i]
            IN  IF v.isString
                THEN BrowserSpecification(v.Name, 0, 0, httpVersion)
                ELSE IF v.HttpVersion = ""
                     THEN [v EXCEPT !.HttpVersion = httpVersion]
                     ELSE v]

RECURSIVE Flatten(_)
Flatten(lists) ==
    IF Len(lists) = 0 THEN <<>> ELSE Head(lists) \o Flatten(Tail(lists))

\* Variant of BrowserOptionMatches: the bounds on the version are exclusive.
BrowserOptionMatchesStrictly(browser, browserOption) ==
    LET browserMajorVersion ==
            IF Len(browserOption.Version) > 0 THEN browserOption.Version[1] ELSE 0
    IN  /\ browser.Name = browserOption.Name
        /\ browser.MinVersion = 0 \/ browser.MinVersion < browserMajorVersion
        /\ browser.MaxVersion = 0 \/ browser.MaxVersion > browserMajorVersion
        /\ \/ browser.HttpVersion = "0"
           \/ browser.HttpVersion = ""
           \/ browser.HttpVersion = browserOption.HttpVersion

\* The test of getBrowserHttpOptions for one requested browser and one
\* catalog entry.
BrowserOptionMatches(browser, browserOption) ==
    LET browserMajorVersion ==
            IF Len(browserOption.Version) > 0 THEN browserOption.Version[1] ELSE 0
    IN  /\ browser.Name = browserOption.Name
        /\ browser.MinVersion = 0 \/ browser.MinVersion <= browserMajorVersion
        /\ browser.MaxVersion = 0 \/ browser.MaxVersion >= browserMajorVersion
        /\ \/ browser.HttpVersion = "0"
           \/ browser.HttpVersion = ""
           \/ browser.HttpVersion = browserOption.HttpVersion

getBrowserHttpOptions(uniqueBrowsers, browsers) ==
    Flatten([i \in DOMAIN browsers |->
        LET matching == SelectSeq(uniqueBrowsers,
                            LAMBDA browserOption :
                                BrowserOptionMatches(browsers[i], browserOption))
        IN  [j \in DOMAIN matching |-> matching[j].CompleteString]])

getPossibleAttributeValues(uniqueBrowsers, headerOptions) ==
    LET browsers == prepareBrowsersConfig(headerOptions.Browsers,
                                          headerOptions.BrowserListQuery,
                                          headerOptions.HttpVersion)
        browserHttpOptions == getBrowserHttpOptions(uniqueBrowsers, browsers)
        withoutDevices ==
            (BrowserHttpNodeName :> browserHttpOptions)
            @@ (OperatingSystemNodeName :> headerOptions.OperatingSystems.elems)
    IN  IF Len(headerOptions.Devices.elems) > 0
        THEN MapPut(withoutDevices, DeviceNodeName, headerOptions.Devices.elems)
        ELSE withoutDevices

\* ------------------------------------ header generator: strings and headers

\* strings.ToLower on the names and values the generator handles.
ToLower(s) ==
    CASE s = "Connection" -> "connection"
      [] s = "User-Agent" -> "user-agent"
      [] s = "Accept-Language" -> "accept-language"
      [] s = "X-Req" -> "x-req"
      [] s = "DNT" -> "dnt"
      [] s = "*DEVICE" -> "*device"
      [] s = "Mozilla/5.0 (Windows NT 10.0) Chrome/120.0" ->
             "mozilla/5.0 (windows nt 10.0) chrome/120.0"
      [] s = "Mozilla/5.0 (X11; Linux) Chrome/120.0" ->
             "mozilla/5.0 (x11; linux) chrome/120.0"
      [] s = "Mozilla/5.0 (Windows NT 10.0) Firefox/60.0" ->
             "mozilla/5.0 (windows nt 10.0) firefox/60.0"
      [] s = "Mozilla/5.0 (X11; Linux) Chrome/80.0" ->
             "mozilla/5.0 (x11; linux) chrome/80.0"
      [] OTHER -> s

\* strings.ToUpper on dnt, rtt and ect.
ToUpper(s) ==
    CASE s = "dnt" -> "DNT"
      [] s = "rtt" -> "RTT"
      [] s = "ect" -> "ECT"
      [] OTHER -> s

\* strings.HasPrefix(s, prefix).
HasPrefix(s, prefix) ==
    \/ s = prefix
    \/ /\ prefix = "*"
       /\ s \in {"*BROWSER_HTTP", "*OPERATING_SYSTEM", "*DEVICE", "*BROWSER",
                 "*MISSING_VALUE*", "*device"}
    \/ /\ prefix = "sec-ch-ua"
       /\ s \in {"sec-ch-ua-platform", "sec-ch-ua-mobile"}

\* strings.Contains(s, substr).
StringsContains(s, substr) ==
    \/ s = substr
    \/ <<s, substr>> \in
          {<<"en-US", "-">>, <<"en-US", "en">>, <<"de-DE", "-">>, <<"de-DE", "de">>,
           <<"zh-Hans", "-">>, <<"zh-Hans", "zh">>, <<"zh-Hans", "an">>,
           <<"mozilla/5.0 (windows nt 10.0) chrome/120.0", "chrome">>,
           <<"mozilla/5.0 (x11; linux) chrome/120.0", "chrome">>,
           <<"mozilla/5.0 (x11; linux) chrome/80.0", "chrome">>,
           <<"mozilla/5.0 (windows nt 10.0) firefox/60.0", "firefox">>}

\* The closure passed to GetHeaders' name rewriting: every dash-separated
\* part gets an upper-case first letter and a lower-case rest.
pascalize(name) ==
    CASE ToLower(name) = "user-agent" -> "User-Agent"
      [] ToLower(name) = "accept-language" -> "Accept-Language"
      [] ToLower(name) = "connection" -> "Connection"
      [] ToLower(name) = "x-req" -> "X-Req"
      [] ToLower(name) = "dnt" -> "Dnt"
      [] ToLower(name) = "*device" -> "*device"
      [] name = "sec-ch-ua-mobile" -> "Sec-Ch-Ua-Mobile"
      [] name = "sec-fetch-mode" -> "Sec-Fetch-Mode"
      [] name = "sec-fetch-dest" -> "Sec-Fetch-Dest"
      [] name = "sec-fetch-site" -> "Sec-Fetch-Site"
      [] name = "sec-fetch-user" -> "Sec-Fetch-User"
      [] OTHER -> name

\* The name under which the HTTP/1 fallback returns a header.
ConvertedName(name) ==
    IF HasPrefix(name, "sec-ch-ua") THEN name
    ELSE IF name \in {"dnt", "rtt", "ect"} THEN ToUpper(name)
    ELSE pascalize(name)

\* The maps with one of the candidate values under every name.
RECURSIVE ChoiceMaps(_, _)
ChoiceMaps(names, candidates) ==
    IF names = {} THEN {EmptyMap}
    ELSE LET k == CHOOSE name \in names : TRUE
         IN  {MapPut(m, k, v) : m \in ChoiceMaps(names \ {k}, candidates),
                                v \in candidates[k]}

\* The maps the rewriting loop can build: when two names are rewritten to
\* the same name, the one `range` visits last wins.
ConvertHeaders(headers2) ==
    LET names == {ConvertedName(name) : name \in DOMAIN headers2}
    IN  ChoiceMaps(names,
                   [k \in names |->
                       {headers2[name] :
                           name \in {n \in DOMAIN headers2 : ConvertedName(n) = k}}])

\* GetUserAgent: the value of the first key `range` visits that is
\* user-agent in lower case.
GetUserAgent(headers) ==
    LET found == {k \in DOMAIN headers : ToLower(k) = "user-agent"}
    IN  IF found = {} THEN {""} ELSE {headers[k] : k \in found}

GetBrowser(userAgent) ==
    LET ua == ToLower(userAgent)
    IN  IF StringsContains(ua, "edg") THEN "edge"
        ELSE IF StringsContains(ua, "chrome") /\ ~StringsContains(ua, "edg")
             THEN "chrome"
        ELSE IF StringsContains(ua, "safari") /\ ~StringsContains(ua, "chrome")
             THEN "safari"
        ELSE IF StringsContains(ua, "firefox") THEN "firefox"
        ELSE ""

getOrderFromUserAgent(headersOrder, headers) ==
    {LET browser == GetBrowser(userAgent)
     IN  IF browser = "" THEN <<>> ELSE MapGetList(headersOrder, browser) :
        userAgent \in GetUserAgent(headers)}

\* OrderHeaders returns a map: the entries named in the order list and the
\* entries not named in it.
OrderHeaders(headersOrder, headers, order) ==
    {LET inOrder == {o[i] : i \in DOMAIN o} \cap DOMAIN headers
         others == {attribute \in DOMAIN headers : ~slicesContains(o, attribute)}
     IN  [attribute \in inOrder \cup others |-> headers[attribute]] :
        o \in IF Len(order) = 0 THEN getOrderFromUserAgent(headersOrder, headers)
                                ELSE {order}}

\* arr without its element at index i.
RemoveAt(arr, i) == SubSeq(arr, 1, i - 1) \o SubSeq(arr, i + 1, Len(arr))

\* ShuffleArray: every arrangement of the slice (equal elements give equal
\* arrangements, so only the first of them is tried at each position).
RECURSIVE ShuffleArray(_)
ShuffleArray(arr) ==
    IF Len(arr) = 0 THEN {<<>>}
    ELSE UNION {{<<arr[i]>> \o rest : rest \in ShuffleArray(RemoveAt(arr, i))} :
                   i \in {k \in DOMAIN arr : \A j \in 1..(k - 1) : arr[j] # arr[k]}}

\* The second loop of getAcceptLanguageField: a locale joins the high-level
\* locales when none of them is contained in it.
RECURSIVE AddUnrepresented(_, _, _)
AddUnrepresented(locales, i, highLevelLocales) ==
    IF i > Len(locales) THEN highLevelLocales
    ELSE LET locale == locales[i]
             highLevelEquivalentPresent ==
                 \E j \in DOMAIN highLevelLocales :
                     StringsContains(locale, highLevelLocales[j])
         IN  AddUnrepresented(
                 locales, i + 1,
                 IF /\ ~slicesContains(highLevelLocales, locale)
                    /\ ~highLevelEquivalentPresent
                 THEN Append(highLevelLocales, locale)
                 ELSE highLevelLocales)

\* Variant of FormatQuality: the quality stops at 0.1.
FormatQualityFloored(x) == "0." \o ToString(IF x < 9 THEN 10 - x ELSE 1)

\* strconv.FormatFloat(1.0 - 0.1 * x, 'f', 1, 64).
FormatQuality(x) ==
    LET tenths == 10 - x
        magnitude == IF tenths < 0 THEN 0 - tenths ELSE tenths
    IN  (IF tenths < 0 THEN "-" ELSE "")
        \o ToString(magnitude \div 10) \o "." \o ToString(magnitude % 10)

RECURSIVE JoinWithQuality(_, _)
JoinWithQuality(localesInAddingOrder, x) ==
    IF x > Len(localesInAddingOrder) THEN ""
    ELSE "," \o localesInAddingOrder[x] \o ";q=" \o FormatQuality(x - 1)
         \o JoinWithQuality(localesInAddingOrder, x + 1)

\* localesInAddingOrder after the loop over the shuffled slices, one per
\* pair of shuffles.
LocalesInAddingOrder(localesFromOptions) ==
    LET unshuffled ==
            AddUnrepresented(
                localesFromOptions, 1,
                SelectSeq(localesFromOptions,
                          LAMBDA locale : ~StringsContains(locale, "-")))
    IN  {Flatten([h \in DOMAIN highLevelLocales |->
            Append(SelectSeq(locales,
                       LAMBDA locale :
                           /\ StringsContains(locale, highLevelLocales[h])
                           /\ ~slicesContains(highLevelLocales, locale)),
                   highLevelLocales[h])]) :
            highLevelLocales \in ShuffleArray(unshuffled),
            locales \in ShuffleArray(localesFromOptions)}

\* The string built from localesInAddingOrder.
AcceptLanguageFieldValue(order) ==
    IF Len(order) = 0 THEN "" ELSE order[1] \o JoinWithQuality(order, 2)

\* The values getAcceptLanguageField can return.
getAcceptLanguageField(localesFromOptions) ==
    {AcceptLanguageFieldValue(order) : order \in LocalesInAddingOrder(localesFromOptions)}

\* ------------------------------------------- header generator: the pipeline

\* A map[string][]string that may be nil.
NilMap == [isNil |-> TRUE, m |-> EmptyMap]
MapOf(m) == [isNil |-> FALSE, m |-> m]

\* GetConstraintClosure of package network: the closure above, returned
\* without an error value (no map when the closure fails).
networkGetConstraintClosure(network, possibleValues) ==
    {IF c.err THEN NilMap ELSE MapOf(c.result) :
        c \in GetConstraintClosure(network, possibleValues)}

\* The pairs (http1Constraints, http2Constraints) GetHeaders can compute.
UserAgentConstraints(headerGeneratorNetwork, userAgentValues) ==
    IF Len(userAgentValues) > 0
    THEN networkGetConstraintClosure(headerGeneratorNetwork,
                                     "User-Agent" :> userAgentValues)
         \X networkGetConstraintClosure(headerGeneratorNetwork,
                                        "user-agent" :> userAgentValues)
    ELSE {<<NilMap, NilMap>>}

\* The filter of the *BROWSER_HTTP list.
KeepsBrowserHttp(x, http1Constraints, http2Constraints) ==
    LET parts == SplitOnBar(x)
        browserName == parts[1]
        httpV == IF Len(parts) > 1 THEN parts[2] ELSE ""
        httpValues ==
            IF \/ httpV = "1"
               \/ http2Constraints.isNil
               \/ DOMAIN http2Constraints.m = {}
            THEN http1Constraints
            ELSE http2Constraints
    IN  \/ httpValues.isNil
        \/ slicesContains(MapGetList(httpValues.m, "*BROWSER"), browserName)

\* The filter of every other list.
KeepsValue(key, x, http1Constraints, http2Constraints) ==
    LET included1 == /\ ~http1Constraints.isNil
                     /\ slicesContains(MapGetList(http1Constraints.m, key), x)
        included2 == /\ ~http2Constraints.isNil
                     /\ slicesContains(MapGetList(http2Constraints.m, key), x)
    IN  \/ http1Constraints.isNil /\ http2Constraints.isNil
        \/ included1
        \/ included2

InputConstraints(possibleAttributeValues, http1Constraints, http2Constraints) ==
    [key \in DOMAIN possibleAttributeValues |->
        IF key = BrowserHttpNodeName
        THEN SelectSeq(possibleAttributeValues[key],
                       LAMBDA x : KeepsBrowserHttp(x, http1Constraints,
                                                   http2Constraints))
        ELSE SelectSeq(possibleAttributeValues[key],
                       LAMBDA x : KeepsValue(key, x, http1Constraints,
                                             http2Constraints))]

\* The first class of the ladder that the call-site options set, counted
\* from 1 (0 stands for the code's -1: none, or no options at all).
ClassIsSet(options, key) ==
    CASE key = "locales" -> ~options.Locales.isNil
      [] key = "devices" -> ~options.Devices.isNil
      [] key = "operatingSystems" -> ~options.OperatingSystems.isNil
      [] key = "browsers" -> ~options.Browsers.isNil
      [] key = "browserListQuery" -> options.BrowserListQuery # ""

\* Variant of RelaxationIndex: the last set class of the ladder.
RelaxationIndexFromTheEnd(hasOptions, options) ==
    LET set == {i \in DOMAIN relaxationOrder :
                    hasOptions /\ ClassIsSet(options, relaxationOrder[i])}
    IN  IF set = {} THEN 0 ELSE CHOOSE i \in set : \A j \in set : j <= i

RelaxationIndex(hasOptions, options) ==
    LET set == {i \in DOMAIN relaxationOrder :
                    hasOptions /\ ClassIsSet(options, relaxationOrder[i])}
    IN  IF set = {} THEN 0 ELSE CHOOSE i \in set : \A j \in set : i <= j

\* Variant of ClearClass: the copy is handed on with the class still set.
ClearNothing(options, key) == options

\* relaxedOptions: a copy of the call-site options with one class cleared.
ClearClass(options, key) ==
    CASE key = "locales" -> [options EXCEPT !.Locales = NilSlice]
      [] key = "devices" -> [options EXCEPT !.Devices = NilSlice]
      [] key = "operatingSystems" -> [options EXCEPT !.OperatingSystems = NilSlice]
      [] key = "browsers" -> [options EXCEPT !.Browsers = NilSlice]
      [] key = "browserListQuery" -> [options EXCEPT !.BrowserListQuery = ""]

\* Variant of HasSecFetch: the gate does not look at the version.
HasSecFetchAnyVersion(generatedHttpAndBrowser) ==
    generatedHttpAndBrowser.Name \in {"chrome", "firefox", "edge"}

\* The sec-fetch gate on the sampled browser.
HasSecFetch(generatedHttpAndBrowser) ==
    LET genV0 == IF Len(generatedHttpAndBrowser.Version) > 0
                 THEN generatedHttpAndBrowser.Version[1] ELSE 0
    IN  \/ generatedHttpAndBrowser.Name = "chrome" /\ genV0 >= 76
        \/ generatedHttpAndBrowser.Name = "firefox" /\ genV0 >= 90
        \/ generatedHttpAndBrowser.Name = "edge" /\ genV0 >= 79

WithSecFetch(sample, secFetchAttributeNames) ==
    MapPut(MapPut(MapPut(MapPut(sample,
        secFetchAttributeNames.site, "same-site"),
        secFetchAttributeNames.mode, "navigate"),
        secFetchAttributeNames.user, "?1"),
        secFetchAttributeNames.dest, "document")

\* The loop that deletes Connection: close, the names starting with * and
\* the missing values.
StripHeaders(sample) ==
    LET deleted == {attribute \in DOMAIN sample :
                       \/ ToLower(attribute) = "connection" /\ sample[attribute] = "close"
                       \/ HasPrefix(attribute, "*")
                       \/ sample[attribute] = MissingValueDatasetToken}
    IN  [attribute \in DOMAIN sample \ deleted |-> sample[attribute]]

\* for k, v := range requestDependentHeaders { generatedSample[k] = v }.
MergeHeaders(sample, requestDependentHeaders) ==
    [k \in DOMAIN sample \cup DOMAIN requestDependentHeaders |->
        IF k \in DOMAIN requestDependentHeaders THEN requestDependentHeaders[k]
        ELSE sample[k]]

\* What GetHeaders makes of the sample of the header network (from the
\* sec-fetch names to OrderHeaders): the maps it can return.
HeadersOfSample(headersOrder, headerOptions, generatedSample, dependentHeaders) ==
    LET generatedHttpAndBrowser ==
            prepareHttpBrowserObject(MapGet(generatedSample, BrowserHttpNodeName))
        isHttp2 == generatedHttpAndBrowser.HttpVersion = "2"
        secFetchAttributeNames ==
            IF isHttp2 THEN Http2SecFetchAttributes ELSE Http1SecFetchAttributes
        acceptLanguageFieldName ==
            IF isHttp2 THEN "accept-language" ELSE "Accept-Language"
    IN  UNION {
            LET withLanguage ==
                    MapPut(generatedSample, acceptLanguageFieldName, language)
                withFetch ==
                    IF HasSecFetch(generatedHttpAndBrowser)
                    THEN WithSecFetch(withLanguage, secFetchAttributeNames)
                    ELSE withLanguage
            IN  OrderHeaders(
                    headersOrder,
                    MergeHeaders(StripHeaders(withFetch), dependentHeaders),
                    MapGetList(headersOrder, generatedHttpAndBrowser.Name)) :
            language \in getAcceptLanguageField(headerOptions.Locales.elems)}

\* ------------------------------------------ header generator: the data files

\* input-network-definition.zip: the operating system, then the browser and
\* the device given the operating system.
InputNetwork ==
    << NodeDef(OperatingSystemNodeName, <<>>, <<"windows", "linux">>,
               Leaf(("windows" :> 1) @@ ("linux" :> 1))),
       NodeDef(BrowserHttpNodeName, <<OperatingSystemNodeName>>,
               <<"chrome/120|2", "firefox/60|2", "chrome/80|1">>,
               Deeper(("windows" :> Leaf(("chrome/120|2" :> 1) @@ ("firefox/60|2" :> 1)))
                      @@ ("linux" :> Leaf(("chrome/120|2" :> 1) @@ ("chrome/80|1" :> 1))))),
       NodeDef(DeviceNodeName, <<OperatingSystemNodeName>>, <<"desktop", "mobile">>,
               Deeper(("windows" :> Leaf("desktop" :> 2))
                      @@ ("linux" :> Leaf(("desktop" :> 1) @@ ("mobile" :> 1))))) >>

\* header-network-definition.zip.
HeaderNetwork ==
    << InputNetwork[1],
       InputNetwork[2],
       NodeDef("*BROWSER", <<BrowserHttpNodeName>>,
               <<"chrome/120", "firefox/60", "chrome/80">>,
               Deeper(("chrome/120|2" :> Leaf("chrome/120" :> 2))
                      @@ ("firefox/60|2" :> Leaf("firefox/60" :> 2))
                      @@ ("chrome/80|1" :> Leaf("chrome/80" :> 2)))),
       NodeDef("user-agent", <<"*BROWSER", OperatingSystemNodeName>>,
               <<"Mozilla/5.0 (Windows NT 10.0) Chrome/120.0",
                 "Mozilla/5.0 (X11; Linux) Chrome/120.0",
                 "Mozilla/5.0 (Windows NT 10.0) Firefox/60.0",
                 MissingValueDatasetToken>>,
               Deeper(("chrome/120" :>
                          Deeper(("windows" :>
                                     Leaf("Mozilla/5.0 (Windows NT 10.0) Chrome/120.0" :> 2))
                                 @@ ("linux" :>
                                     Leaf("Mozilla/5.0 (X11; Linux) Chrome/120.0" :> 2))))
                      @@ ("firefox/60" :>
                          Deeper("windows" :>
                                     Leaf("Mozilla/5.0 (Windows NT 10.0) Firefox/60.0" :> 2)))
                      @@ ("chrome/80" :>
                          Deeper("linux" :> Leaf(MissingValueDatasetToken :> 2))))),
       NodeDef("User-Agent", <<"*BROWSER">>,
               <<"Mozilla/5.0 (X11; Linux) Chrome/80.0", MissingValueDatasetToken>>,
               DeeperSkip("chrome/80" :> Leaf("Mozilla/5.0 (X11; Linux) Chrome/80.0" :> 2),
                          Leaf(MissingValueDatasetToken :> 2))),
       NodeDef("connection", <<>>, <<"close", "keep-alive">>,
               Leaf(("close" :> 1) @@ ("keep-alive" :> 1))) >>

\* The files of a data directory.
DataFiles ==
    [browserHelper |-> <<"chrome/120|2", "chrome/80|1", "firefox/60|2",
                         "safari/17|2", MissingValueDatasetToken>>,
     headersOrder |-> ("chrome" :> <<"user-agent", "accept-language", "connection">>)
                      @@ ("firefox" :> <<"accept-language", "user-agent">>),
     inputNetwork |-> InputNetwork,
     headerNetwork |-> HeaderNetwork]

NewHeaderGenerator(hasOptions, options, files) ==
    LET uniqueBrowserStrings ==
            SelectSeq(files.browserHelper,
                      LAMBDA browserString : browserString # MissingValueDatasetToken)
    IN  [globalOptions |-> MergeOptions(DefaultHeaderGeneratorOptions, hasOptions, options),
         uniqueBrowsers |-> [i \in DOMAIN uniqueBrowserStrings |->
                                prepareHttpBrowserObject(uniqueBrowserStrings[i])],
         headersOrder |-> files.headersOrder,
         inputGeneratorNetwork |-> files.inputNetwork,
         headerGeneratorNetwork |-> files.headerNetwork]

\* The options generators are constructed with.
GeneratorOptions ==
    {ZeroOptions,
     [ZeroOptions EXCEPT !.Strict = TRUE],
     [ZeroOptions EXCEPT !.HttpVersion = "1"],
     [ZeroOptions EXCEPT !.OperatingSystems = SliceOf(<<"amiga">>)]}

Generators ==
    {NewHeaderGenerator(FALSE, ZeroOptions, DataFiles)}
    \cup {NewHeaderGenerator(TRUE, options, DataFiles) : options \in GeneratorOptions}

\* The options GetHeaders is called with.
CallOptions ==
    {HeaderGeneratorOptions(browsers, browserListQuery, operatingSystems, devices,
                            locales, httpVersion, strict) :
        browsers \in {NilSlice, SliceOf(<<BrowserString("chrome")>>),
                      SliceOf(<<BrowserSpecification("chrome", 100, 0, "")>>),
                      SliceOf(<<BrowserString("safari")>>),
                      SliceOf(<<BrowserString("ie")>>)},
        browserListQuery \in {"", "defaults"},
        operatingSystems \in {NilSlice, SliceOf(<<"windows">>), SliceOf(<<"amiga">>)},
        devices \in {NilSlice, SliceOf(<<"tv">>)},
        locales \in {NilSlice, SliceOf(<<"en-US", "de">>)},
        httpVersion \in {"", "1"},
        strict \in BOOLEAN}

\* The maps of request-dependent headers GetHeaders is called with.
RequestDependentHeaders ==
    {EmptyMap,
     ("x-req" :> "1") @@ ("user-agent" :> "curl/8") @@ ("dnt" :> "1")
         @@ ("sec-ch-ua-mobile" :> "?0"),
     ("Connection" :> "close") @@ ("*DEVICE" :> MissingValueDatasetToken)}

UserAgentValues == {<<>>, <<"Mozilla/5.0 (Windows NT 10.0) Chrome/120.0">>}

\* --------------------------------------- fingerprint generator: values, options

STRINGIFIED_PREFIX == "*STRINGIFIED*"
MISSING_VALUE_DATASET_TOKEN == "*MISSING_VALUE*"

\* The cap of the retry loop of GetFingerprint.
MaxGenerateRetries == 10

\* The bounds of the screen window when the option leaves them out.
DefaultMinBound == 0
DefaultMaxBound == 100000

\* A *float64: nil, or a pointer to a number.
NilFloat == [isNil |-> TRUE, v |-> 0]
FloatPtr(v) == [isNil |-> FALSE, v |-> v]

FingerprintScreenOptions(MinWidth, MaxWidth, MinHeight, MaxHeight) ==
    [MinWidth |-> MinWidth, MaxWidth |-> MaxWidth,
     MinHeight |-> MinHeight, MaxHeight |-> MaxHeight]

\* A *FingerprintScreenOptions and a *HeaderGeneratorOptions: nil, or a
\* pointer to the struct.
NilScreen == [isNil |-> TRUE, v |-> FingerprintScreenOptions(NilFloat, NilFloat, NilFloat, NilFloat)]
ScreenPtr(v) == [isNil |-> FALSE, v |-> v]
NilHeaderOptions == [isNil |-> TRUE, v |-> ZeroOptions]
HeaderOptionsPtr(v) == [isNil |-> FALSE, v |-> v]

FingerprintGeneratorOptions(headerGeneratorOptions, Screen, MockWebRTC, Slim) ==
    [HeaderGeneratorOptions |-> headerGeneratorOptions, Screen |-> Screen,
     MockWebRTC |-> MockWebRTC, Slim |-> Slim]

ZeroFingerprintOptions ==
    FingerprintGeneratorOptions(NilHeaderOptions, NilScreen, FALSE, FALSE)

\* The values of the screen node: stringified JSON objects, the token of a
\* missing value, and a stringified text that is no JSON.
Screen1024 == STRINGIFIED_PREFIX \o "{\"width\":1024,\"height\":768}"
Screen1440 == STRINGIFIED_PREFIX \o "{\"width\":1440,\"height\":900}"
Screen2560 == STRINGIFIED_PREFIX \o "{\"width\":2560,\"height\":1440}"
ScreenNoJson == STRINGIFIED_PREFIX \o "{"

StringifiedValues == {Screen1024, Screen1440, Screen2560, ScreenNoJson}

\* json.Unmarshal of what follows the prefix into a ScreenFingerprint: the
\* error, and the width and height it decodes.
UnmarshalScreen(val) ==
    CASE val = Screen1024 -> [err |-> FALSE, Width |-> 1024, Height |-> 768]
      [] val = Screen1440 -> [err |-> FALSE, Width |-> 1440, Height |-> 900]
      [] val = Screen2560 -> [err |-> FALSE, Width |-> 2560, Height |-> 1440]
      [] OTHER -> [err |-> TRUE, Width |-> 0, Height |-> 0]

\* The bound a pointer gives, or the default when it is nil.
BoundOr(ptr, default) == IF ptr.isNil THEN default ELSE ptr.v

\* Variant of InWindow: only the width is tested.
InWidthWindow(screenOptions, screen) ==
    /\ screen.Width >= BoundOr(screenOptions.MinWidth, DefaultMinBound)
    /\ screen.Width <= BoundOr(screenOptions.MaxWidth, DefaultMaxBound)

\* The test of the screen filter.
InWindow(screenOptions, screen) ==
    /\ screen.Width >= BoundOr(screenOptions.MinWidth, DefaultMinBound)
    /\ screen.Width <= BoundOr(screenOptions.MaxWidth, DefaultMaxBound)
    /\ screen.Height >= BoundOr(screenOptions.MinHeight, DefaultMinBound)
    /\ screen.Height <= BoundOr(screenOptions.MaxHeight, DefaultMaxBound)

\* The loop over the domain of the screen node: the stringified values that
\* decode to a screen inside the window, in the order of the domain.
PossibleScreens(screenNode, screenOptions) ==
    SelectSeq(screenNode.possibleValues,
              LAMBDA screenString :
                  /\ screenString \in StringifiedValues
                  /\ ~UnmarshalScreen(screenString).err
                  /\ InWindow(screenOptions, UnmarshalScreen(screenString)))

\* filteredValues after the screen filter.
ScreenFilter(network, screenOptions) ==
    IF "screen" \in NodeNames(network)
    THEN "screen" :> PossibleScreens(NodeByName(network, "screen"), screenOptions)
    ELSE EmptyMap

\* optToUse: the stored screen, mockWebRTC and slim with empty header
\* options, overwritten by the options of the call when there are any.
MergeFingerprintOptions(stored, hasOptions, callOptions) ==
    IF ~hasOptions
    THEN FingerprintGeneratorOptions(HeaderOptionsPtr(ZeroOptions), stored.Screen,
                                     stored.MockWebRTC, stored.Slim)
    ELSE FingerprintGeneratorOptions(
             callOptions.HeaderGeneratorOptions,
             IF callOptions.Screen.isNil THEN stored.Screen ELSE callOptions.Screen,
             callOptions.MockWebRTC, callOptions.Slim)

\* The test that lets the error of the closure end the call.
StrictToUse(merged) ==
    ~merged.HeaderGeneratorOptions.isNil /\ merged.HeaderGeneratorOptions.v.Strict

\* What the loop makes of one value of the sample: nil for the token of a
\* missing value, the parsed JSON of a stringified value (the text itself when
\* it does not parse), and any other text as it is.
DecodeValue(val) ==
    IF val = MISSING_VALUE_DATASET_TOKEN THEN [kind |-> "nil", text |-> "", screen |-> UnmarshalScreen("")]
    ELSE IF val \in StringifiedValues /\ ~UnmarshalScreen(val).err
    THEN [kind |-> "json", text |-> "", screen |-> UnmarshalScreen(val)]
    ELSE [kind |-> "text", text |-> val, screen |-> UnmarshalScreen("")]

\* fingerprintRaw: every attribute of the sample, decoded.
FingerprintRaw(sample) == [attribute \in DOMAIN sample |-> DecodeValue(sample[attribute])]

\* Variant of ScreenIsNil: only a sample without the attribute counts.
ScreenIsAbsent(fingerprintRaw) == "screen" \notin DOMAIN fingerprintRaw

\* fingerprintRaw["screen"] == nil: no such attribute, or a nil value.
ScreenIsNil(fingerprintRaw) ==
    "screen" \notin DOMAIN fingerprintRaw \/ fingerprintRaw["screen"].kind = "nil"

\* The user agent GetFingerprint reads from the headers.
UserAgentOf(headersMap) ==
    IF "User-Agent" \in DOMAIN headersMap THEN headersMap["User-Agent"]
    ELSE IF "user-agent" \in DOMAIN headersMap THEN headersMap["user-agent"]
    ELSE ""

\* What GetFingerprint returns: the headers and the fingerprint, or an error.
FingerprintWithHeaders(headersMap, fingerprintRaw) ==
    [err |-> "", Headers |-> headersMap, Fingerprint |-> fingerprintRaw]
FingerprintError(message) == [err |-> message, Headers |-> EmptyMap, Fingerprint |-> EmptyMap]
NoFingerprint == FingerprintError("none")

\* fingerprint-network-definition.zip: the user agent, then the screen given
\* the user agent. No fingerprint of Firefox or of Chrome 80 was collected.
FingerprintNetwork ==
    << NodeDef("userAgent", <<>>,
               <<"Mozilla/5.0 (Windows NT 10.0) Chrome/120.0",
                 "Mozilla/5.0 (X11; Linux) Chrome/120.0">>,
               Leaf(("Mozilla/5.0 (Windows NT 10.0) Chrome/120.0" :> 1)
                    @@ ("Mozilla/5.0 (X11; Linux) Chrome/120.0" :> 1))),
       NodeDef("screen", <<"userAgent">>,
               <<Screen1024, Screen1440, Screen2560, MISSING_VALUE_DATASET_TOKEN,
                 ScreenNoJson>>,
               Deeper(("Mozilla/5.0 (Windows NT 10.0) Chrome/120.0" :>
                          Leaf((Screen1024 :> 1) @@ (Screen1440 :> 1)
                               @@ (ScreenNoJson :> 1)))
                      @@ ("Mozilla/5.0 (X11; Linux) Chrome/120.0" :>
                          Leaf((Screen2560 :> 1)
                               @@ (MISSING_VALUE_DATASET_TOKEN :> 1))))) >>

\* ------------------------------------------------------------------- state

VARIABLES
    net,                \* the loaded network (NodesInSamplingOrder)
    op,                 \* the top-level operation that is running or has run
    pc,                 \* where the running call stands
    valuePossibilities, \* the constraint map of the constrained sampler
    sampleSoFar,        \* the assignment the recursion mutates in place
    stack,              \* one frame (bannedValues, sampleValue) per active depth
    result,             \* the map the call returned
    backtracked,        \* history: some depth has failed during this call
    inputValues,        \* the seed passed to GenerateSample
    idx,                \* GenerateSample's position in NodesInSamplingOrder
    closureIn,          \* the constraint map passed to GetConstraintClosure
    closureOut,         \* what GetConstraintClosure returned
    gen,                \* the HeaderGenerator
    calls,              \* the invocations of GetHeaders of one call, outermost first
    requestDependentHeaders, \* argument of GetHeaders
    userAgentValues,    \* argument of GetHeaders
    headers,            \* what the outermost GetHeaders returned
    localesFromOptions, \* argument of getAcceptLanguageField
    localesInAddingOrder, \* the slice getAcceptLanguageField joins
    acceptLanguageFieldValue, \* what getAcceptLanguageField returned
    fingerprintGeneratorNetwork, \* the network of the FingerprintGenerator
    fingerprintGlobalOptions, \* the options the FingerprintGenerator stores
    fingerprintOptions, \* argument of GetFingerprint: the options, or nil
    optToUse,           \* the merged options of the running GetFingerprint
    filteredValues,     \* the constraint map GetFingerprint builds
    partialCSP,         \* the closure GetFingerprint keeps, or nil
    generateRetries,    \* the counter of the retry loop
    getHeadersCalls,    \* history: the calls of GetHeaders this GetFingerprint made
    samplings,          \* history: its samplings of the fingerprint network
    headerErrors,       \* history: its calls of GetHeaders that returned the error
    fingerprint,        \* what GetFingerprint returned
    requestedBrowsers,  \* argument of getBrowserHttpOptions
    returnedBrowserHttpOptions \* what getBrowserHttpOptions returned

headerVars == <<gen, calls, requestDependentHeaders, userAgentValues, headers>>

languageVars == <<localesFromOptions, localesInAddingOrder, acceptLanguageFieldValue>>

fingerprintVars == <<fingerprintGeneratorNetwork, fingerprintGlobalOptions, fingerprintOptions, optToUse, filteredValues, partialCSP, generateRetries, getHeadersCalls, samplings, headerErrors, fingerprint>>

browserVars == <<requestedBrowsers, returnedBrowserHttpOptions>>

vars == <<net, op, pc, valuePossibilities, sampleSoFar, stack, result, backtracked,
          inputValues, idx, closureIn, closureOut, headerVars, languageVars,
          fingerprintVars, browserVars>>

Frame(bannedValues, sampleValue) ==
    [bannedValues |-> bannedValues, sampleValue |-> sampleValue]

\* The return value of GetHeaders: headers, or the over-constrained error.
Headers(m) == [err |-> FALSE, m |-> m]
OverConstrainedError == [err |-> TRUE, m |-> EmptyMap]

\* No FingerprintGenerator was constructed.
NoFingerprintGenerator ==
    /\ fingerprintGeneratorNetwork = <<>>
    /\ fingerprintGlobalOptions = ZeroFingerprintOptions

\* No call is running.
InitIdle ==
    /\ op = "none"
    /\ pc = "idle"
    /\ valuePossibilities = EmptyMap
    /\ sampleSoFar = EmptyMap
    /\ stack = <<>>
    /\ result = EmptyMap
    /\ backtracked = FALSE
    /\ inputValues = EmptyMap
    /\ idx = 0
    /\ closureIn = EmptyMap
    /\ closureOut = NoClosureInformation(<<>>)
    /\ calls = <<>>
    /\ requestDependentHeaders = EmptyMap
    /\ userAgentValues = <<>>
    /\ headers = Headers(EmptyMap)
    /\ localesInAddingOrder = <<>>
    /\ acceptLanguageFieldValue = ""
    /\ fingerprintOptions = [running |-> FALSE, hasOptions |-> FALSE,
                            options |-> ZeroFingerprintOptions]
    /\ optToUse = ZeroFingerprintOptions
    /\ filteredValues = EmptyMap
    /\ partialCSP = NilMap
    /\ generateRetries = 0
    /\ getHeadersCalls = 0
    /\ samplings = 0
    /\ headerErrors = 0
    /\ fingerprint = NoFingerprint
    /\ returnedBrowserHttpOptions = <<>>

Init ==
    /\ net \in Networks
    /\ gen = NewHeaderGenerator(FALSE, ZeroOptions, DataFiles)
    /\ localesFromOptions = <<>>
    /\ requestedBrowsers = <<>>
    /\ NoFingerprintGenerator
    /\ InitIdle

\* Where a call of the engine returns to: into GetHeaders when it made the
\* call, and to the caller of the engine otherwise.
ReturnTo(operation, site) == IF operation = "GetHeaders" THEN site ELSE "done"

\* ------------------------------------------------- the constrained sampler

\* GenerateConsistentSampleWhenPossible(P): the recursion is entered at depth
\* 0 with a fresh assignment; with no nodes it returns that assignment.
EnterRecursion(P) ==
    /\ valuePossibilities' = P
    /\ sampleSoFar' = EmptyMap
    /\ backtracked' = FALSE
    /\ IF Len(net) = 0
       THEN /\ stack' = <<>>
            /\ result' = EmptyMap
            /\ pc' = ReturnTo(op', "inputSample")
       ELSE /\ stack' = << Frame(<<>>, "") >>
            /\ result' = result
            /\ pc' = "sampling"

CallGenerateConsistent ==
    /\ pc = "idle"
    /\ op' = "GenerateConsistentSampleWhenPossible"
    /\ \E P \in ConstraintMaps(net) : EnterRecursion(P)
    /\ UNCHANGED languageVars
    /\ UNCHANGED browserVars
    /\ UNCHANGED fingerprintVars
    /\ UNCHANGED <<net, inputValues, idx, closureIn, closureOut, headerVars>>

\* The node of the deepest active frame (depth = Len(stack) - 1).
CurrentNode == net[Len(stack)]

\* The values the deepest frame's next draw can give.
CurrentDraws ==
    SampleAccordingToRestrictions(
        CurrentNode, sampleSoFar,
        MapGetList(valuePossibilities, CurrentNode.name),
        stack[Len(stack)].bannedValues)

\* sampleSoFar[name] = sampleValue.
Assign(sample, name, sampleValue) == MapPut(sample, name, sampleValue)

\* A draw succeeds: the value is written into the shared assignment; the
\* recursion descends, or at the last node every frame returns the assignment.
Descend ==
    /\ pc = "sampling"
    /\ \E sampleValue \in CurrentDraws :
          /\ sampleValue # ""
          /\ sampleSoFar' = Assign(sampleSoFar, CurrentNode.name, sampleValue)
          /\ IF Len(stack) < Len(net)
             THEN /\ stack' = Append(
                        [stack EXCEPT ![Len(stack)].sampleValue = sampleValue],
                        Frame(<<>>, ""))
                  /\ result' = result
                  /\ pc' = "sampling"
             ELSE /\ stack' = <<>>
                  /\ result' = sampleSoFar'
                  /\ pc' = ReturnTo(op, "inputSample")
    /\ UNCHANGED languageVars
    /\ UNCHANGED browserVars
    /\ UNCHANGED fingerprintVars
    /\ UNCHANGED <<net, op, valuePossibilities, backtracked, inputValues, idx,
                   closureIn, closureOut, headerVars>>

\* Variant of BanInCaller: the caller retries without banning anything.
BanNothing(frames) == frames

\* The frames after the callee of the last one returned the empty map: the
\* caller appends the value it had tried to its bannedValues.
BanInCaller(frames) ==
    LET d == Len(frames)
    IN  [frames EXCEPT ![d].bannedValues = Append(@, frames[d].sampleValue)]

\* A draw returns "": the frame returns a new empty map and its caller bans
\* the value it had tried; the assignment keeps what the failed branch wrote.
\* At depth 0 the empty map is the result.
Backtrack ==
    /\ pc = "sampling"
    /\ "" \in CurrentDraws
    /\ backtracked' = TRUE
    /\ IF Len(stack) = 1
       THEN /\ stack' = <<>>
            /\ result' = EmptyMap
            /\ pc' = ReturnTo(op, "inputSample")
       ELSE /\ stack' = BanInCaller(SubSeq(stack, 1, Len(stack) - 1))
            /\ result' = result
            /\ pc' = "sampling"
    /\ UNCHANGED languageVars
    /\ UNCHANGED browserVars
    /\ UNCHANGED fingerprintVars
    /\ UNCHANGED <<net, op, valuePossibilities, sampleSoFar, inputValues, idx,
                   closureIn, closureOut, headerVars>>

NextSampler == CallGenerateConsistent \/ Descend \/ Backtrack

SpecSampler == Init /\ [][NextSampler]_vars

\* A call that has been entered keeps running until it returns.
SpecSamplerFair == SpecSampler /\ WF_vars(Descend \/ Backtrack)

\* ------------------------------------------------------ ancestral sampler

\* GenerateSample(inputValues): the seed is copied into the working sample.
CallGenerateSample ==
    /\ pc = "idle"
    /\ op' = "GenerateSample"
    /\ \E seed \in SeedMaps(net) :
          /\ inputValues' = seed
          /\ sampleSoFar' = seed
    /\ idx' = 1
    /\ pc' = "generating"
    /\ UNCHANGED languageVars
    /\ UNCHANGED browserVars
    /\ UNCHANGED fingerprintVars
    /\ UNCHANGED <<net, valuePossibilities, stack, result, backtracked,
                   closureIn, closureOut, headerVars>>

\* Variant of NeedsDraw: every node is drawn, seeded or not.
AlwaysDraws(sample, name) == TRUE

\* The test of the loop body: a node already in the sample is not drawn.
NeedsDraw(sample, name) == name \notin DOMAIN sample

\* Variant of SeedAfterDraw: the working sample is the seed itself, not a copy.
SeedSharedWithSample(seed, sample) == sample

\* inputValues as its owner holds it after an iteration: the draws are stored
\* in the copy made on entry, never in the map that was passed in.
SeedAfterDraw(seed, sample) == seed

\* One iteration of the loop over NodesInSamplingOrder.
GenerateSampleStep ==
    /\ pc = "generating"
    /\ idx <= Len(net)
    /\ IF NeedsDraw(sampleSoFar, net[idx].name)
       THEN \E v \in NodeSample(net[idx], sampleSoFar) :
                sampleSoFar' = MapPut(sampleSoFar, net[idx].name, v)
       ELSE sampleSoFar' = sampleSoFar
    /\ inputValues' = SeedAfterDraw(inputValues, sampleSoFar')
    /\ idx' = idx + 1
    /\ UNCHANGED languageVars
    /\ UNCHANGED browserVars
    /\ UNCHANGED fingerprintVars
    /\ UNCHANGED <<net, op, pc, valuePossibilities, stack, result, backtracked,
                   closureIn, closureOut, headerVars>>

\* The loop is over: the working sample is returned.
GenerateSampleReturn ==
    /\ pc = "generating"
    /\ idx > Len(net)
    /\ result' = sampleSoFar
    /\ pc' = ReturnTo(op, "generatedSample")
    /\ UNCHANGED languageVars
    /\ UNCHANGED browserVars
    /\ UNCHANGED fingerprintVars
    /\ UNCHANGED <<net, op, valuePossibilities, sampleSoFar, stack, backtracked,
                   inputValues, idx, closureIn, closureOut, headerVars>>

NextSample == CallGenerateSample \/ GenerateSampleStep \/ GenerateSampleReturn

SpecSample == Init /\ [][NextSample]_vars

\* ------------------------------------------- closure, then sampling under it

\* GetConstraintClosure(net, P).
CallGetConstraintClosure ==
    /\ pc = "idle"
    /\ op' = "GetConstraintClosure"
    /\ \E P \in ConstraintMaps(net) :
          /\ closureIn' = P
          /\ closureOut' \in GetConstraintClosure(net, P)
    /\ pc' = "closed"
    /\ UNCHANGED languageVars
    /\ UNCHANGED browserVars
    /\ UNCHANGED fingerprintVars
    /\ UNCHANGED <<net, valuePossibilities, sampleSoFar, stack, result, backtracked,
                   inputValues, idx, headerVars>>

\* The closure's result is handed to the constrained sampler.
SampleUnderClosure ==
    /\ pc = "closed"
    /\ ~closureOut.err
    /\ op' = "SampleUnderClosure"
    /\ EnterRecursion(closureOut.result)
    /\ UNCHANGED languageVars
    /\ UNCHANGED browserVars
    /\ UNCHANGED fingerprintVars
    /\ UNCHANGED <<net, inputValues, idx, closureIn, closureOut, headerVars>>

NextClosure == CallGetConstraintClosure

SpecClosure == Init /\ [][NextClosure]_vars

NextClosureSample ==
    CallGetConstraintClosure \/ SampleUnderClosure \/ Descend \/ Backtrack

SpecClosureSample == Init /\ [][NextClosureSample]_vars

\* ------------------------------------------------------------- GetHeaders

\* One invocation of GetHeaders: the options it was called with, the merged
\* options, how it was invoked ("call", "fallback" or "relaxed"), for a
\* relaxed one the position in the ladder of the class its caller cleared,
\* and, once it has returned, what it returned.
Invocation(hasOptions, options, headerOptions, kind, cleared) ==
    [hasOptions |-> hasOptions, options |-> options,
     headerOptions |-> headerOptions, kind |-> kind, cleared |-> cleared,
     done |-> FALSE, returned |-> Headers(EmptyMap)]

\* GetHeaders up to its call of the input network's constrained sampler.
Invoke(hasOptions, options, hints, kind, cleared) ==
    LET headerOptions == MergeOptions(gen.globalOptions, hasOptions, options)
        possibleAttributeValues ==
            getPossibleAttributeValues(gen.uniqueBrowsers, headerOptions)
    IN  /\ calls' = Append(calls, Invocation(hasOptions, options, headerOptions,
                                             kind, cleared))
        /\ \E c \in UserAgentConstraints(gen.headerGeneratorNetwork, hints) :
              EnterRecursion(InputConstraints(possibleAttributeValues, c[1], c[2]))

\* A caller calls GetHeaders, with options or with nil.
CallGetHeadersWith(hintLists) ==
    /\ pc = "idle"
    /\ op' = "GetHeaders"
    /\ \E hasOptions \in BOOLEAN :
       \E options \in IF hasOptions THEN CallOptions ELSE {ZeroOptions} :
       \E hints \in hintLists :
          /\ userAgentValues' = hints
          /\ Invoke(hasOptions, options, hints, "call", 0)
    /\ requestDependentHeaders' \in RequestDependentHeaders
    /\ UNCHANGED languageVars
    /\ UNCHANGED browserVars
    /\ UNCHANGED fingerprintVars
    /\ UNCHANGED <<net, gen, inputValues, idx, closureIn, closureOut, headers>>

\* A caller calls GetHeaders, with or without user-agent hints.
CallGetHeaders == CallGetHeadersWith(UserAgentValues)

\* The invocation that is running.
Running == calls[Len(calls)]

\* The input sample is empty.
NoInputSample == pc = "inputSample" /\ DOMAIN result = {}

\* Variant of Http2Options: the copy keeps the HTTP version it has.
SameVersionOptions(headerOptions) == headerOptions

\* newOpts: a copy of the merged options with HTTP version "2".
Http2Options(headerOptions) == [headerOptions EXCEPT !.HttpVersion = "2"]

\* The merged HTTP version is "1": GetHeaders calls itself with the merged
\* options and HTTP version "2".
FallBackToHttp2 ==
    /\ NoInputSample
    /\ Running.headerOptions.HttpVersion = "1"
    /\ UNCHANGED languageVars
    /\ UNCHANGED browserVars
    /\ UNCHANGED fingerprintVars
    /\ UNCHANGED <<net, op, gen, inputValues, idx, closureIn, closureOut,
                   requestDependentHeaders, userAgentValues, headers>>
    /\ Invoke(TRUE, Http2Options(Running.headerOptions), userAgentValues,
              "fallback", 0)

\* Variant of MayRelax: strict does not stop the relaxation.
MayRelaxWhenStrict(headerOptions, relaxationIndex) == relaxationIndex # 0

\* The test before the relaxation: not strict, and some class is set.
MayRelax(headerOptions, relaxationIndex) ==
    ~(headerOptions.Strict \/ relaxationIndex = 0)

\* GetHeaders calls itself with a copy of its options in which the first
\* set class of the ladder is cleared.
Relax ==
    /\ NoInputSample
    /\ Running.headerOptions.HttpVersion # "1"
    /\ UNCHANGED languageVars
    /\ UNCHANGED browserVars
    /\ UNCHANGED fingerprintVars
    /\ UNCHANGED <<net, op, gen, inputValues, idx, closureIn, closureOut,
                   requestDependentHeaders, userAgentValues, headers>>
    /\ LET relaxationIndex == RelaxationIndex(Running.hasOptions, Running.options)
       IN  /\ MayRelax(Running.headerOptions, relaxationIndex)
           /\ Invoke(TRUE,
                     ClearClass(Running.options, relaxationOrder[relaxationIndex]),
                     userAgentValues, "relaxed", relaxationIndex)

\* Strict, or nothing to relax: the error goes back through every caller.
FailOverConstrained ==
    /\ NoInputSample
    /\ Running.headerOptions.HttpVersion # "1"
    /\ ~MayRelax(Running.headerOptions,
                 RelaxationIndex(Running.hasOptions, Running.options))
    /\ headers' = OverConstrainedError
    /\ calls' = [i \in DOMAIN calls |->
                    [calls[i] EXCEPT !.done = TRUE, !.returned = OverConstrainedError]]
    /\ pc' = "done"
    /\ UNCHANGED languageVars
    /\ UNCHANGED browserVars
    /\ UNCHANGED fingerprintVars
    /\ UNCHANGED <<net, op, valuePossibilities, sampleSoFar, stack, result,
                   backtracked, inputValues, idx, closureIn, closureOut, gen,
                   requestDependentHeaders, userAgentValues>>

\* The input sample seeds GenerateSample of the header network.
GenerateHeaders ==
    /\ pc = "inputSample"
    /\ DOMAIN result # {}
    /\ net' = gen.headerGeneratorNetwork
    /\ inputValues' = result
    /\ sampleSoFar' = result
    /\ idx' = 1
    /\ pc' = "generating"
    /\ UNCHANGED languageVars
    /\ UNCHANGED browserVars
    /\ UNCHANGED fingerprintVars
    /\ UNCHANGED <<op, valuePossibilities, stack, result, backtracked, closureIn,
                   closureOut, headerVars>>

\* What the invocations frames[1..i] return when invocation i returns the
\* headers h, outermost first: the caller of a fallback rewrites the names and
\* orders the result, the caller of a relaxed invocation returns it as it is.
RECURSIVE ReturnThrough(_, _, _, _)
ReturnThrough(headersOrder, frames, i, h) ==
    IF i = 1 THEN {<<h>>}
    ELSE LET toCaller ==
                 IF frames[i].kind = "fallback"
                 THEN UNION {OrderHeaders(headersOrder, converted, <<>>) :
                                converted \in ConvertHeaders(h)}
                 ELSE {h}
         IN  UNION {{Append(r, h) :
                        r \in ReturnThrough(headersOrder, frames, i - 1, c)} :
                    c \in toCaller}

\* The rest of GetHeaders, and the return through the callers.
ReturnHeaders ==
    /\ pc = "generatedSample"
    /\ \E h \in HeadersOfSample(gen.headersOrder, Running.headerOptions, result,
                                requestDependentHeaders) :
       \E r \in ReturnThrough(gen.headersOrder, calls, Len(calls), h) :
          /\ calls' = [i \in DOMAIN calls |->
                          [calls[i] EXCEPT !.done = TRUE, !.returned = Headers(r[i])]]
          /\ headers' = Headers(r[1])
    /\ pc' = "done"
    /\ UNCHANGED languageVars
    /\ UNCHANGED browserVars
    /\ UNCHANGED fingerprintVars
    /\ UNCHANGED <<net, op, valuePossibilities, sampleSoFar, stack, result,
                   backtracked, inputValues, idx, closureIn, closureOut, gen,
                   requestDependentHeaders, userAgentValues>>

InitHeaders ==
    /\ gen \in Generators
    /\ net = gen.inputGeneratorNetwork
    /\ localesFromOptions = <<>>
    /\ requestedBrowsers = <<>>
    /\ NoFingerprintGenerator
    /\ InitIdle

NextHeaders ==
    \/ CallGetHeaders
    \/ Descend
    \/ Backtrack
    \/ FallBackToHttp2
    \/ Relax
    \/ FailOverConstrained
    \/ GenerateHeaders
    \/ GenerateSampleStep
    \/ GenerateSampleReturn
    \/ ReturnHeaders

SpecHeaders == InitHeaders /\ [][NextHeaders]_vars

\* ------------------------------------------------- GetHeaders with hints

\* Data files whose catalog lists chrome/80 under both HTTP versions.
HintDataFiles ==
    [DataFiles EXCEPT !.browserHelper = <<"chrome/120|2", "chrome/80|1", "chrome/80|2",
                                          "firefox/60|2", MissingValueDatasetToken>>]

\* The userAgentHints a caller passes: a user agent the header network has
\* under "user-agent" only, one it has under "User-Agent" only, and both.
UserAgentHints ==
    {<<"Mozilla/5.0 (Windows NT 10.0) Chrome/120.0">>,
     <<"Mozilla/5.0 (X11; Linux) Chrome/80.0">>,
     <<"Mozilla/5.0 (Windows NT 10.0) Chrome/120.0",
       "Mozilla/5.0 (X11; Linux) Chrome/80.0">>}

\* A caller calls GetHeaders with user-agent hints.
CallGetHeadersWithHints == CallGetHeadersWith(UserAgentHints)

InitHints ==
    /\ gen = NewHeaderGenerator(FALSE, ZeroOptions, HintDataFiles)
    /\ net = gen.inputGeneratorNetwork
    /\ localesFromOptions = <<>>
    /\ requestedBrowsers = <<>>
    /\ NoFingerprintGenerator
    /\ InitIdle

NextHints ==
    \/ CallGetHeadersWithHints
    \/ Descend
    \/ Backtrack
    \/ FallBackToHttp2
    \/ Relax
    \/ FailOverConstrained
    \/ GenerateHeaders
    \/ GenerateSampleStep
    \/ GenerateSampleReturn
    \/ ReturnHeaders

SpecHints == InitHints /\ [][NextHints]_vars

\* ------------------------------------------------- getAcceptLanguageField

\* The sequences over S of the lengths lo..hi.
SeqsOf(S, lo, hi) == UNION {[1..n -> S] : n \in lo..hi}

\* The locales lists that are tried: every list of up to MaxLocaleListLen
\* locales, and the longer lists of one locale up to MaxLocales.
LocaleLists ==
    SeqsOf({"an", "zh", "zh-Hans"}, 0, MaxLocaleListLen)
    \cup SeqsOf({"de"}, 1, MaxLocales)

CallGetAcceptLanguageField ==
    /\ pc = "idle"
    /\ op' = "getAcceptLanguageField"
    /\ localesInAddingOrder' \in LocalesInAddingOrder(localesFromOptions)
    /\ acceptLanguageFieldValue' = AcceptLanguageFieldValue(localesInAddingOrder')
    /\ pc' = "done"
    /\ UNCHANGED <<net, valuePossibilities, sampleSoFar, stack, result, backtracked,
                   inputValues, idx, closureIn, closureOut, headerVars,
                   localesFromOptions, fingerprintVars, browserVars>>

InitAcceptLanguage ==
    /\ gen = NewHeaderGenerator(FALSE, ZeroOptions, DataFiles)
    /\ net = gen.inputGeneratorNetwork
    /\ localesFromOptions \in LocaleLists
    /\ requestedBrowsers = <<>>
    /\ NoFingerprintGenerator
    /\ InitIdle

NextAcceptLanguage == CallGetAcceptLanguageField

SpecAcceptLanguage == InitAcceptLanguage /\ [][NextAcceptLanguage]_vars

\* ------------------------------------- getProbabilitiesGivenKnownValues

\* A caller asks node idx of the network for its distribution given
\* parentValues.
CallGetProbabilities ==
    /\ pc = "idle"
    /\ op' = "getProbabilitiesGivenKnownValues"
    /\ \E i \in DOMAIN net :
       \E parentValues \in SeedMaps(net) :
          /\ idx' = i
          /\ sampleSoFar' = parentValues
          /\ result' = getProbabilitiesGivenKnownValues(net[i], parentValues)
    /\ pc' = "done"
    /\ UNCHANGED languageVars
    /\ UNCHANGED browserVars
    /\ UNCHANGED fingerprintVars
    /\ UNCHANGED <<net, valuePossibilities, stack, backtracked, inputValues,
                   closureIn, closureOut, headerVars>>

NextProbabilities == CallGetProbabilities

SpecProbabilities == Init /\ [][NextProbabilities]_vars

\* ------------------------------------ Sample, SampleAccordingToRestrictions

\* A caller asks node idx of the network for a value given parentValues.
CallSample ==
    /\ pc = "idle"
    /\ op' = "Sample"
    /\ \E i \in DOMAIN net :
       \E parentValues \in SeedMaps(net) :
          /\ idx' = i
          /\ sampleSoFar' = parentValues
          /\ \E v \in NodeSample(net[i], parentValues) :
                stack' = << Frame(<<>>, v) >>
    /\ valuePossibilities' = EmptyMap
    /\ pc' = "done"
    /\ UNCHANGED languageVars
    /\ UNCHANGED browserVars
    /\ UNCHANGED fingerprintVars
    /\ UNCHANGED <<net, result, backtracked, inputValues, closureIn, closureOut,
                   headerVars>>

\* A caller asks node idx of the network for a value given parentValues,
\* among the allowed values and without the banned ones.
CallSampleAccordingToRestrictions ==
    /\ pc = "idle"
    /\ op' = "SampleAccordingToRestrictions"
    /\ \E i \in DOMAIN net :
       \E parentValues \in SeedMaps(net) :
       \E allowed \in Lists :
       \E bannedValues \in Lists :
          /\ idx' = i
          /\ sampleSoFar' = parentValues
          /\ valuePossibilities' = (net[i].name :> allowed)
          /\ \E v \in SampleAccordingToRestrictions(net[i], parentValues, allowed,
                                                    bannedValues) :
                stack' = << Frame(bannedValues, v) >>
    /\ pc' = "done"
    /\ UNCHANGED languageVars
    /\ UNCHANGED browserVars
    /\ UNCHANGED fingerprintVars
    /\ UNCHANGED <<net, result, backtracked, inputValues, closureIn, closureOut,
                   headerVars>>

NextNodeSamplers == CallSample \/ CallSampleAccordingToRestrictions

SpecNodeSamplers == Init /\ [][NextNodeSamplers]_vars

\* ---------------------------------------------------------- GetFingerprint

\* NewFingerprintGenerator: the header generator of the header options, the
\* stored screen, mockWebRTC and slim, and the fingerprint network.
NewFingerprintGenerator(hasOptions, callOptions, files, fingerprintNetwork) ==
    [HeaderGenerator |->
         NewHeaderGenerator(hasOptions /\ ~callOptions.HeaderGeneratorOptions.isNil,
                            callOptions.HeaderGeneratorOptions.v, files),
     fingerprintGeneratorNetwork |-> fingerprintNetwork,
     fingerprintGlobalOptions |->
         IF hasOptions
         THEN FingerprintGeneratorOptions(NilHeaderOptions, callOptions.Screen,
                                          callOptions.MockWebRTC, callOptions.Slim)
         ELSE ZeroFingerprintOptions]

\* A window no screen lies in (min > max), the window of widths 1280..1920,
\* a window with a lower bound on the height only, and one with no bound.
EmptyWindow ==
    ScreenPtr(FingerprintScreenOptions(FloatPtr(3000), FloatPtr(2000), NilFloat, NilFloat))
Window1280To1920 ==
    ScreenPtr(FingerprintScreenOptions(FloatPtr(1280), FloatPtr(1920), NilFloat, NilFloat))
WindowFromHeight1000 ==
    ScreenPtr(FingerprintScreenOptions(NilFloat, NilFloat, FloatPtr(1000), NilFloat))
WindowWithoutBounds ==
    ScreenPtr(FingerprintScreenOptions(NilFloat, NilFloat, NilFloat, NilFloat))

\* A header network in which Chrome 120 on Linux was collected without a
\* user agent, and the data files with it.
HeaderNetworkWithMissingUserAgent ==
    [HeaderNetwork EXCEPT
        ![4] = NodeDef("user-agent", <<"*BROWSER", OperatingSystemNodeName>>,
                       <<"Mozilla/5.0 (Windows NT 10.0) Chrome/120.0",
                         "Mozilla/5.0 (Windows NT 10.0) Firefox/60.0",
                         MissingValueDatasetToken>>,
                       Deeper(("chrome/120" :>
                                  Deeper(("windows" :>
                                             Leaf("Mozilla/5.0 (Windows NT 10.0) Chrome/120.0" :> 2))
                                         @@ ("linux" :>
                                             Leaf(MissingValueDatasetToken :> 2))))
                              @@ ("firefox/60" :>
                                  Deeper("windows" :>
                                             Leaf("Mozilla/5.0 (Windows NT 10.0) Firefox/60.0" :> 2)))
                              @@ ("chrome/80" :>
                                  Deeper("linux" :> Leaf(MissingValueDatasetToken :> 2)))))]
DataFilesWithMissingUserAgent ==
    [DataFiles EXCEPT !.headerNetwork = HeaderNetworkWithMissingUserAgent]

\* The options fingerprint generators are constructed with.
FingerprintGenerators ==
    {NewFingerprintGenerator(FALSE, ZeroFingerprintOptions, DataFiles, FingerprintNetwork),
     NewFingerprintGenerator(
         TRUE,
         FingerprintGeneratorOptions(
             HeaderOptionsPtr([ZeroOptions EXCEPT !.Strict = TRUE]), NilScreen,
             FALSE, FALSE),
         DataFiles, FingerprintNetwork),
     NewFingerprintGenerator(
         TRUE, FingerprintGeneratorOptions(NilHeaderOptions, EmptyWindow, FALSE, FALSE),
         DataFiles, FingerprintNetwork),
     NewFingerprintGenerator(FALSE, ZeroFingerprintOptions,
                             DataFilesWithMissingUserAgent, FingerprintNetwork)}

\* The options GetFingerprint is called with.
FingerprintCallOptions ==
    {FingerprintGeneratorOptions(NilHeaderOptions, Window1280To1920, FALSE, FALSE),
     FingerprintGeneratorOptions(NilHeaderOptions, WindowFromHeight1000, FALSE, FALSE),
     FingerprintGeneratorOptions(NilHeaderOptions, WindowWithoutBounds, FALSE, FALSE),
     FingerprintGeneratorOptions(HeaderOptionsPtr(ZeroOptions), EmptyWindow, FALSE, FALSE),
     FingerprintGeneratorOptions(
         HeaderOptionsPtr([ZeroOptions EXCEPT !.Strict = TRUE]), EmptyWindow,
         FALSE, FALSE),
     FingerprintGeneratorOptions(
         HeaderOptionsPtr([ZeroOptions EXCEPT !.OperatingSystems = SliceOf(<<"amiga">>),
                                              !.Strict = TRUE]),
         NilScreen, FALSE, FALSE),
     FingerprintGeneratorOptions(
         HeaderOptionsPtr([ZeroOptions EXCEPT !.OperatingSystems = SliceOf(<<"amiga">>)]),
         NilScreen, FALSE, FALSE),
     FingerprintGeneratorOptions(
         HeaderOptionsPtr([ZeroOptions EXCEPT !.OperatingSystems = SliceOf(<<"windows">>),
                                              !.HttpVersion = "1"]),
         NilScreen, FALSE, FALSE)}

\* The maps of request-dependent headers GetFingerprint is called with.
FingerprintRequestHeaders == {EmptyMap, "x-req" :> "1"}

\* GetFingerprint is running.
InGetFingerprint == fingerprintOptions.running

\* GetFingerprint up to its loop: the options are merged, the screen filter
\* and the closure run when a screen option is set, and the error of the
\* closure ends the call when the merged header options are strict.
CallGetFingerprint ==
    /\ pc = "idle"
    /\ op' = "GetFingerprint"
    /\ \E hasOptions \in BOOLEAN :
       \E callOptions \in IF hasOptions THEN FingerprintCallOptions
                                        ELSE {ZeroFingerprintOptions} :
          LET merged == MergeFingerprintOptions(fingerprintGlobalOptions, hasOptions,
                                                callOptions)
              filtered == ScreenFilter(fingerprintGeneratorNetwork, merged.Screen.v)
          IN  /\ fingerprintOptions' = [running |-> TRUE, hasOptions |-> hasOptions,
                                        options |-> callOptions]
              /\ optToUse' = merged
              /\ IF merged.Screen.isNil
                 THEN /\ filteredValues' = EmptyMap
                      /\ partialCSP' = NilMap
                      /\ fingerprint' = fingerprint
                      /\ pc' = "retry"
                      /\ UNCHANGED <<closureIn, closureOut>>
                 ELSE \E closure \in GetConstraintClosure(fingerprintGeneratorNetwork,
                                                          filtered) :
                         /\ closureIn' = filtered
                         /\ closureOut' = closure
                         /\ IF closure.err /\ StrictToUse(merged)
                            THEN /\ filteredValues' = filtered
                                 /\ partialCSP' = NilMap
                                 /\ fingerprint' = FingerprintError("over-constrained")
                                 /\ pc' = "done"
                            ELSE /\ filteredValues' =
                                        IF closure.err THEN MapDelete(filtered, "screen")
                                                       ELSE filtered
                                 /\ partialCSP' =
                                        IF closure.err THEN NilMap
                                                       ELSE MapOf(closure.result)
                                 /\ fingerprint' = fingerprint
                                 /\ pc' = "retry"
    /\ requestDependentHeaders' \in FingerprintRequestHeaders
    /\ generateRetries' = 0
    /\ UNCHANGED languageVars
    /\ UNCHANGED browserVars
    /\ UNCHANGED <<net, valuePossibilities, sampleSoFar, stack, result, backtracked,
                   inputValues, idx, gen, calls, userAgentValues, headers,
                   fingerprintGeneratorNetwork, fingerprintGlobalOptions,
                   getHeadersCalls, samplings, headerErrors>>

\* The head of the loop body: GetHeaders is called with the merged header
\* options and the user agents of the closure.
AttemptGetHeaders ==
    /\ pc = "retry"
    /\ generateRetries < MaxGenerateRetries
    /\ op' = "GetHeaders"
    /\ LET hints == IF ~partialCSP.isNil THEN MapGetList(partialCSP.m, "userAgent")
                                         ELSE <<>>
       IN  /\ userAgentValues' = hints
           /\ Invoke(~optToUse.HeaderGeneratorOptions.isNil,
                     optToUse.HeaderGeneratorOptions.v, hints, "call", 0)
    /\ getHeadersCalls' = getHeadersCalls + 1
    /\ UNCHANGED languageVars
    /\ UNCHANGED browserVars
    /\ UNCHANGED <<net, inputValues, idx, closureIn, closureOut, gen,
                   requestDependentHeaders, headers, fingerprintGeneratorNetwork,
                   fingerprintGlobalOptions, fingerprintOptions, optToUse,
                   filteredValues, partialCSP, generateRetries, samplings,
                   headerErrors, fingerprint>>

\* continue: the locals of the iteration are gone and the counter goes up.
Continue ==
    /\ generateRetries' = generateRetries + 1
    /\ op' = "GetFingerprint"
    /\ pc' = "retry"
    /\ net' = gen.inputGeneratorNetwork
    /\ calls' = <<>>
    /\ userAgentValues' = <<>>
    /\ headers' = Headers(EmptyMap)
    /\ valuePossibilities' = EmptyMap
    /\ sampleSoFar' = EmptyMap
    /\ stack' = <<>>
    /\ result' = EmptyMap
    /\ backtracked' = FALSE
    /\ inputValues' = EmptyMap
    /\ idx' = 0
    /\ UNCHANGED languageVars
    /\ UNCHANGED browserVars
    /\ UNCHANGED <<closureIn, closureOut, gen, requestDependentHeaders,
                   fingerprintGeneratorNetwork, fingerprintGlobalOptions,
                   fingerprintOptions, optToUse, partialCSP, getHeadersCalls, fingerprint>>

\* GetHeaders returned an error: the loop goes on with the next iteration.
ContinueAfterHeaderError ==
    /\ InGetFingerprint
    /\ pc = "done"
    /\ op = "GetHeaders"
    /\ headers.err
    /\ headerErrors' = headerErrors + 1
    /\ Continue
    /\ UNCHANGED <<filteredValues, samplings>>

\* Variant of ConstrainUserAgent: filteredValues stays as it is.
LeaveUserAgentFree(values, userAgent) == values

\* filteredValues["userAgent"] = []string{userAgent}.
ConstrainUserAgent(values, userAgent) == MapPut(values, "userAgent", <<userAgent>>)

\* GetHeaders returned headers: their user agent becomes a constraint and the
\* fingerprint network is sampled under filteredValues.
SampleFingerprint ==
    /\ InGetFingerprint
    /\ pc = "done"
    /\ op = "GetHeaders"
    /\ ~headers.err
    /\ filteredValues' = ConstrainUserAgent(filteredValues, UserAgentOf(headers.m))
    /\ net' = fingerprintGeneratorNetwork
    /\ op' = "GenerateConsistentSampleWhenPossible"
    /\ samplings' = samplings + 1
    /\ valuePossibilities' = filteredValues'
    /\ sampleSoFar' = EmptyMap
    /\ backtracked' = FALSE
    /\ result' = EmptyMap
    /\ IF Len(fingerprintGeneratorNetwork) = 0
       THEN stack' = <<>> /\ pc' = "done"
       ELSE stack' = << Frame(<<>>, "") >> /\ pc' = "sampling"
    /\ UNCHANGED languageVars
    /\ UNCHANGED browserVars
    /\ UNCHANGED <<inputValues, idx, closureIn, closureOut, headerVars,
                   fingerprintGeneratorNetwork, fingerprintGlobalOptions,
                   fingerprintOptions, optToUse, partialCSP, generateRetries,
                   getHeadersCalls, headerErrors, fingerprint>>

\* The sampler of the fingerprint network has returned.
FingerprintSampled ==
    /\ InGetFingerprint
    /\ pc = "done"
    /\ op = "GenerateConsistentSampleWhenPossible"

\* The sample is empty: the loop goes on with the next iteration.
ContinueAfterEmptyFingerprint ==
    /\ FingerprintSampled
    /\ DOMAIN result = {}
    /\ Continue
    /\ UNCHANGED <<filteredValues, samplings, headerErrors>>

\* The decoded screen is nil: the loop goes on with the next iteration.
ContinueAfterNilScreen ==
    /\ FingerprintSampled
    /\ DOMAIN result # {}
    /\ ScreenIsNil(FingerprintRaw(result))
    /\ Continue
    /\ UNCHANGED <<filteredValues, samplings, headerErrors>>

\* The decoded fingerprint is returned with the headers.
ReturnFingerprint ==
    /\ FingerprintSampled
    /\ DOMAIN result # {}
    /\ ~ScreenIsNil(FingerprintRaw(result))
    /\ fingerprint' = FingerprintWithHeaders(headers.m, FingerprintRaw(result))
    /\ op' = "GetFingerprint"
    /\ pc' = "done"
    /\ UNCHANGED languageVars
    /\ UNCHANGED browserVars
    /\ UNCHANGED <<net, valuePossibilities, sampleSoFar, stack, result, backtracked,
                   inputValues, idx, closureIn, closureOut, headerVars,
                   fingerprintGeneratorNetwork, fingerprintGlobalOptions,
                   fingerprintOptions, optToUse, filteredValues, partialCSP,
                   generateRetries, getHeadersCalls, samplings, headerErrors>>

\* The message of the error after the loop.
RetriesExhausted == "Failed to generate a consistent fingerprint after 10 attempts"

\* The loop is over: the call fails.
FailAfterRetries ==
    /\ pc = "retry"
    /\ generateRetries >= MaxGenerateRetries
    /\ fingerprint' = FingerprintError(RetriesExhausted)
    /\ pc' = "done"
    /\ UNCHANGED languageVars
    /\ UNCHANGED browserVars
    /\ UNCHANGED <<net, op, valuePossibilities, sampleSoFar, stack, result, backtracked,
                   inputValues, idx, closureIn, closureOut, headerVars,
                   fingerprintGeneratorNetwork, fingerprintGlobalOptions,
                   fingerprintOptions, optToUse, filteredValues, partialCSP,
                   generateRetries, getHeadersCalls, samplings, headerErrors>>

InitFingerprint ==
    /\ \E g \in FingerprintGenerators :
          /\ gen = g.HeaderGenerator
          /\ fingerprintGeneratorNetwork = g.fingerprintGeneratorNetwork
          /\ fingerprintGlobalOptions = g.fingerprintGlobalOptions
    /\ net = gen.inputGeneratorNetwork
    /\ localesFromOptions = <<>>
    /\ requestedBrowsers = <<>>
    /\ InitIdle

NextFingerprint ==
    \/ CallGetFingerprint
    \/ AttemptGetHeaders
    \/ Descend
    \/ Backtrack
    \/ FallBackToHttp2
    \/ Relax
    \/ FailOverConstrained
    \/ GenerateHeaders
    \/ GenerateSampleStep
    \/ GenerateSampleReturn
    \/ ReturnHeaders
    \/ ContinueAfterHeaderError
    \/ SampleFingerprint
    \/ ContinueAfterEmptyFingerprint
    \/ ContinueAfterNilScreen
    \/ ReturnFingerprint
    \/ FailAfterRetries

SpecFingerprint == InitFingerprint /\ [][NextFingerprint]_vars

\* One call of GetFingerprint on the generator constructed without options;
\* a call that has been entered keeps running until it returns.
InitFingerprintDefault ==
    /\ InitFingerprint
    /\ fingerprintGlobalOptions = ZeroFingerprintOptions
    /\ gen = NewHeaderGenerator(FALSE, ZeroOptions, DataFiles)

SpecFingerprintFair ==
    InitFingerprintDefault /\ [][NextFingerprint]_vars /\ WF_vars(NextFingerprint)

\* ------------------------------------------------- generators and archives

\* What NewNetwork returns for an archive that is missing, empty or
\* unparseable: a network without nodes.
NoNodes == <<>>

\* The data directories: complete, without a usable input-network archive,
\* and without a usable header-network archive.
DataDirectories ==
    {DataFiles,
     [DataFiles EXCEPT !.inputNetwork = NoNodes],
     [DataFiles EXCEPT !.headerNetwork = NoNodes]}

\* A generator over each data directory, with and without a usable
\* fingerprint-network archive.
InitArchives ==
    /\ \E files \in DataDirectories :
       \E fingerprintNetwork \in {FingerprintNetwork, NoNodes} :
       \E g \in {NewFingerprintGenerator(FALSE, ZeroFingerprintOptions, files,
                                         fingerprintNetwork)} :
          /\ gen = g.HeaderGenerator
          /\ fingerprintGeneratorNetwork = g.fingerprintGeneratorNetwork
          /\ fingerprintGlobalOptions = g.fingerprintGlobalOptions
    /\ net = gen.inputGeneratorNetwork
    /\ localesFromOptions = <<>>
    /\ requestedBrowsers = <<>>
    /\ InitIdle

NextArchives == CallGetHeaders \/ NextFingerprint

SpecArchives == InitArchives /\ [][NextArchives]_vars

\* ------------------------------------------------------ sequences of calls

\* A call has returned to the caller of the generator.
Returned ==
    /\ pc \in {"done", "closed"}
    /\ InGetFingerprint => op = "GetFingerprint"

\* The caller takes the result; the generator is ready for the next call.
Return ==
    /\ Returned
    /\ op' = "none"
    /\ pc' = "idle"
    /\ net' = gen.inputGeneratorNetwork
    /\ valuePossibilities' = EmptyMap
    /\ sampleSoFar' = EmptyMap
    /\ stack' = <<>>
    /\ result' = EmptyMap
    /\ backtracked' = FALSE
    /\ inputValues' = EmptyMap
    /\ idx' = 0
    /\ closureIn' = EmptyMap
    /\ closureOut' = NoClosureInformation(<<>>)
    /\ calls' = <<>>
    /\ requestDependentHeaders' = EmptyMap
    /\ userAgentValues' = <<>>
    /\ headers' = Headers(EmptyMap)
    /\ fingerprintOptions' = [running |-> FALSE, hasOptions |-> FALSE,
                             options |-> ZeroFingerprintOptions]
    /\ optToUse' = ZeroFingerprintOptions
    /\ filteredValues' = EmptyMap
    /\ partialCSP' = NilMap
    /\ generateRetries' = 0
    /\ getHeadersCalls' = 0
    /\ samplings' = 0
    /\ headerErrors' = 0
    /\ fingerprint' = NoFingerprint
    /\ UNCHANGED languageVars
    /\ UNCHANGED browserVars
    /\ UNCHANGED <<gen, fingerprintGeneratorNetwork, fingerprintGlobalOptions>>

\* Any sequence of calls on one fingerprint generator and on its networks: the
\* engine is called on the input network.
NextCalls ==
    \/ CallGenerateConsistent
    \/ CallGenerateSample
    \/ CallGetConstraintClosure
    \/ CallGetHeaders
    \/ NextFingerprint
    \/ Return

SpecCalls == InitFingerprint /\ [][NextCalls]_vars

\* ------------------------------------------------- getBrowserHttpOptions

\* The browsers that are requested: a browser with two catalog entries, one
\* with one entry and one with none, with and without bounds on the major
\* version, and with every HTTP version.
RequestedBrowsers ==
    {BrowserSpecification(name, minVersion, maxVersion, httpVersion) :
        name \in {"chrome", "firefox", "ie"},
        minVersion \in {0, 120},
        maxVersion \in {0, 80},
        httpVersion \in {"", "0", "1", "2"}}

\* The lists of requested browsers that are tried.
BrowserLists == SeqsOf(RequestedBrowsers, 0, MaxBrowsers)

\* g.getBrowserHttpOptions(browsers).
CallGetBrowserHttpOptions ==
    /\ pc = "idle"
    /\ op' = "getBrowserHttpOptions"
    /\ returnedBrowserHttpOptions' =
           getBrowserHttpOptions(gen.uniqueBrowsers, requestedBrowsers)
    /\ pc' = "done"
    /\ UNCHANGED <<net, valuePossibilities, sampleSoFar, stack, result, backtracked,
                   inputValues, idx, closureIn, closureOut, headerVars,
                   languageVars, fingerprintVars, requestedBrowsers>>

InitBrowserHttpOptions ==
    /\ gen = NewHeaderGenerator(FALSE, ZeroOptions, DataFiles)
    /\ net = gen.inputGeneratorNetwork
    /\ localesFromOptions = <<>>
    /\ requestedBrowsers \in BrowserLists
    /\ NoFingerprintGenerator
    /\ InitIdle

NextBrowserHttpOptions == CallGetBrowserHttpOptions

SpecBrowserHttpOptions == InitBrowserHttpOptions /\ [][NextBrowserHttpOptions]_vars

\* -------------------------------------------------------------- properties

ReturnedBy(operation) == pc = "done" /\ op = operation

Sampled == ReturnedBy("GenerateConsistentSampleWhenPossible")

\* Every parent of a node stands before it in the sampling order.
Topological(network) ==
    \A i \in DOMAIN network :
        \A k \in DOMAIN network[i].parentNames :
            \E j \in 1..(i - 1) : network[j].name = network[i].parentNames[k]

\* A complete assignment in which every node's value is a key of its
\* distribution given the assigned parent values and lies in P[node] when
\* that list is non-empty.
ConsistentAssignments(network, P) ==
    {a \in [NodeNames(network) -> Vals] :
        \A i \in DOMAIN network :
            LET name == network[i].name
            IN  /\ a[name] \in DOMAIN getProbabilitiesGivenKnownValues(network[i], a)
                /\ Len(MapGetList(P, name)) > 0 => slicesContains(P[name], a[name])}

\* C1, as stated: a non-empty sample has, for every key k of P with a
\* non-empty list, sample[k] in P[k].
C1_EveryKeyOfP ==
    (Sampled /\ result # EmptyMap) =>
        \A k \in DOMAIN valuePossibilities :
            Len(valuePossibilities[k]) > 0 =>
                slicesContains(valuePossibilities[k], MapGet(result, k))

\* C1, amended: a non-empty sample has, for every key k of P that names a
\* node of the network and has a non-empty list, sample[k] in P[k].
C1_SampleWithinConstraints ==
    (Sampled /\ result # EmptyMap) =>
        \A k \in DOMAIN valuePossibilities \cap NodeNames(net) :
            Len(valuePossibilities[k]) > 0 =>
                /\ k \in DOMAIN result
                /\ slicesContains(valuePossibilities[k], result[k])

\* A sample was returned under a list that excludes a value of the alphabet.
C1_Witness ==
    /\ Sampled
    /\ result # EmptyMap
    /\ \E k \in DOMAIN valuePossibilities \cap NodeNames(net) :
          /\ Len(valuePossibilities[k]) > 0
          /\ SeqToSet(valuePossibilities[k]) # Vals

\* C2, as stated: on a topological network the result is empty exactly when
\* no consistent complete assignment exists.
C2_EmptyIffUnsatisfiable ==
    (Sampled /\ Topological(net)) =>
        (result = EmptyMap <=> ConsistentAssignments(net, valuePossibilities) = {})

\* C2, amended: on a topological network with at least one node the result
\* is empty exactly when no consistent complete assignment exists, whatever
\* the draws were.
C2_EmptyIffUnsatisfiableNonEmptyNet ==
    (Sampled /\ Topological(net) /\ Len(net) > 0) =>
        (result = EmptyMap <=> ConsistentAssignments(net, valuePossibilities) = {})

\* A sample was found although an earlier branch of the search had failed.
C2_Witness ==
    /\ Sampled
    /\ Len(net) > 0
    /\ backtracked
    /\ result # EmptyMap

\* C3: a non-empty result has exactly one entry per node, and each node's
\* value is a key of the distribution computed from the parent values of
\* that same result, also after branches have failed.
C3_NoLeftover ==
    (Sampled /\ result # EmptyMap) =>
        /\ DOMAIN result = NodeNames(net)
        /\ \A i \in DOMAIN net :
              result[net[i].name] \in
                  DOMAIN getProbabilitiesGivenKnownValues(net[i], result)

\* A three-node sample was returned after a branch that had reached the last
\* node failed (the last node is constrained, so the failure was at depth 2).
C3_Witness ==
    /\ Sampled
    /\ result # EmptyMap
    /\ backtracked
    /\ Len(net) = 3
    /\ Len(MapGetList(valuePossibilities, net[3].name)) = 1

Generated == ReturnedBy("GenerateSample")

\* C4, as stated: every node's value in the sample of GenerateSample is a
\* member of the node's possibleValues.
C4_EveryValuePossible ==
    Generated =>
        \A i \in DOMAIN net :
            slicesContains(net[i].possibleValues, MapGet(result, net[i].name))

\* C4, amended: every node that inputValues does not seed has a member of
\* its possibleValues, or the empty string when its distribution given the
\* sample's parent values is empty; a seeded node keeps its seed.
C4_DrawnValuePossible ==
    Generated =>
        \A i \in DOMAIN net :
            LET name == net[i].name
            IN  name \notin DOMAIN inputValues =>
                    \/ slicesContains(net[i].possibleValues, result[name])
                    \/ /\ result[name] = ""
                       /\ DOMAIN getProbabilitiesGivenKnownValues(net[i], result) = {}

\* A sample was drawn for a node whose leaf does not sum to 1.0.
C4_Witness ==
    /\ Generated
    /\ net = NetWeights
    /\ "A" \notin DOMAIN inputValues
    /\ result["A"] = "x"

\* C5: GenerateSample returns after one pass over the nodes; the result has
\* an entry for every node and gives every key of inputValues its seed.
C5_CompleteExtension ==
    Generated =>
        /\ idx = Len(net) + 1
        /\ NodeNames(net) \subseteq DOMAIN result
        /\ \A k \in DOMAIN inputValues : k \in DOMAIN result /\ result[k] = inputValues[k]

\* A sample was returned in which one node was seeded and another drawn.
C5_Witness ==
    /\ Generated
    /\ \E k \in NodeNames(net) : k \in DOMAIN inputValues
    /\ \E k \in NodeNames(net) : k \notin DOMAIN inputValues

Closed == pc = "closed"

\* The constrained sampler can return a non-empty sample under P.
CanSample(network, P) ==
    Len(network) > 0 /\ ConsistentAssignments(network, P) # {}

\* C6: when the closure returns R for P, the sampler can return a non-empty
\* sample under R if and only if it can under P.
C6_ClosureEquisatisfiable ==
    ReturnedBy("SampleUnderClosure") =>
        (result # EmptyMap <=> CanSample(net, closureIn))

\* C7, as stated: when the closure succeeds, every key k of P is in R and
\* R[k] is a subset of P[k].
C7_EveryConstraintSurvives ==
    (Closed /\ ~closureOut.err) =>
        \A k \in DOMAIN closureIn :
            /\ k \in DOMAIN closureOut.result
            /\ SeqToSet(closureOut.result[k]) \subseteq SeqToSet(closureIn[k])

\* C7, amended: when the closure succeeds with a non-empty result, every key
\* k of P that names a node of the network is in R and R[k] is a subset of
\* P[k].
C7_NodeConstraintsSurvive ==
    (Closed /\ ~closureOut.err /\ closureOut.result # EmptyMap) =>
        \A k \in DOMAIN closureIn \cap NodeNames(net) :
            /\ k \in DOMAIN closureOut.result
            /\ SeqToSet(closureOut.result[k]) \subseteq SeqToSet(closureIn[k])

\* A closure with two constraints on nodes succeeded with a non-empty result
\* that narrows one of them.
C7_Witness ==
    /\ Closed
    /\ ~closureOut.err
    /\ closureOut.result # EmptyMap
    /\ Cardinality(DOMAIN closureIn \cap NodeNames(net)) >= 2
    /\ \E k \in DOMAIN closureIn \cap NodeNames(net) :
          SeqToSet(closureOut.result[k]) # SeqToSet(closureIn[k])

\* The intersection of the lists that the per-constraint sets give for name.
ListsFor(sets, name) ==
    {SeqToSet(sets[i][name]) : i \in {j \in DOMAIN sets : name \in DOMAIN sets[j]}}
EmptyIntersection(sets, name) ==
    /\ ListsFor(sets, name) # {}
    /\ {v \in Vals : \A l \in ListsFor(sets, name) : v \in l} = {}

\* C8: the closure returns the error and no map when a key of P has an
\* empty list, and when the lists that the per-constraint sets give for
\* some name have an empty intersection.
C8_OverConstrained ==
    Closed =>
        /\ (\E k \in DOMAIN closureIn : Len(closureIn[k]) = 0) => closureOut.err
        /\ (/\ \A k \in DOMAIN closureIn : Len(closureIn[k]) > 0
            /\ \E name \in NodeNames(net) : EmptyIntersection(closureOut.sets, name))
               => closureOut.err
        /\ closureOut.err => closureOut.result = EmptyMap

\* The closure failed on two constraints whose lists are all non-empty.
C8_Witness ==
    /\ Closed
    /\ closureOut.err
    /\ \A k \in DOMAIN closureIn : Len(closureIn[k]) > 0
    /\ \E name \in NodeNames(net) : EmptyIntersection(closureOut.sets, name)

\* Some root-to-leaf path of the tree ends in a leaf holding a valid key.
RECURSIVE HasMatchingLeaf(_, _)
HasMatchingLeaf(tree, validKeys) ==
    /\ IsMap(tree)
    /\ \E key \in DOMAIN tree.m :
          IF IsMap(tree.m[key]) THEN HasMatchingLeaf(tree.m[key], validKeys)
          ELSE slicesContains(validKeys, key)

\* No constraint of P on a node finds an allowed value in a leaf of the
\* node's undeepered table.
NoPathAnywhere(network, P) ==
    \A k \in DOMAIN P \cap NodeNames(network) :
        ~HasMatchingLeaf(Undeeper(NodeByName(network, k).cpt), P[k])

\* C9, as stated: if no constraint finds a path, the closure returns the
\* empty map and no error.
C9_NoPathGivesEmptyMap ==
    (Closed /\ NoPathAnywhere(net, closureIn)) =>
        (~closureOut.err /\ closureOut.result = EmptyMap)

\* C9, amended: if every list of P is non-empty and no constraint finds a
\* path, the closure returns the empty map and no error.
C9_NoPathGivesEmptyMapNonEmptyLists ==
    (/\ Closed
     /\ \A k \in DOMAIN closureIn : Len(closureIn[k]) > 0
     /\ NoPathAnywhere(net, closureIn)) =>
        (~closureOut.err /\ closureOut.result = EmptyMap)

\* The closure returned the empty map for a constraint on a node with a
\* parent, none of whose deeper leaves holds the allowed value.
C9_Witness ==
    /\ Closed
    /\ ~closureOut.err
    /\ closureOut.result = EmptyMap
    /\ \E k \in DOMAIN closureIn \cap NodeNames(net) :
          /\ Len(closureIn[k]) > 0
          /\ Len(NodeByName(net, k).parentNames) > 0
    /\ NoPathAnywhere(net, closureIn)

\* The positions in the ladder of the classes that options set.
SetClasses(options) ==
    {i \in DOMAIN relaxationOrder : ClassIsSet(options, relaxationOrder[i])}

RelaxedInvocations == {i \in DOMAIN calls : calls[i].kind = "relaxed"}

\* C10: across the re-invocations of one GetHeaders call, every relaxed
\* invocation was handed its caller's options with exactly one class cleared,
\* that class is the lowest-positioned class of the ladder set in the
\* caller's options, and the cleared positions strictly increase from one
\* relaxation to the next.
C10_LadderOrder ==
    \A i \in RelaxedInvocations :
        LET before == SetClasses(calls[i - 1].options)
            after == SetClasses(calls[i].options)
            cleared == calls[i].cleared
        IN  /\ calls[i - 1].hasOptions
            /\ cleared \in before
            /\ \A lower \in before : cleared <= lower
            /\ after = before \ {cleared}
            /\ calls[i].options =
                   ClearClass(calls[i - 1].options, relaxationOrder[cleared])
            /\ \A j \in RelaxedInvocations : j < i => calls[j].cleared < cleared

\* The call-site options of an invocation set no class of the ladder.
NothingToRelax(invocation) ==
    ~invocation.hasOptions \/ SetClasses(invocation.options) = {}

\* C11: whenever an invocation of GetHeaders whose merged HTTP version is
\* "2" finds its input sample empty and is strict, or was called with no
\* options or with options that set no class of the ladder, the next step
\* returns the over-constrained error from it and from every caller, and no
\* further invocation is made.
C11_NoRelaxation ==
    [][(/\ NoInputSample
        /\ Running.headerOptions.HttpVersion = "2"
        /\ Running.headerOptions.Strict \/ NothingToRelax(Running))
       => /\ pc' = "done"
          /\ headers' = OverConstrainedError
          /\ Len(calls') = Len(calls)
          /\ \A i \in DOMAIN calls' : calls'[i].returned = OverConstrainedError]_vars

\* A strict invocation whose options set a class of the ladder has returned
\* the error.
C11_Witness ==
    /\ pc = "done"
    /\ op = "GetHeaders"
    /\ headers.err
    /\ Running.headerOptions.HttpVersion = "2"
    /\ Running.headerOptions.Strict
    /\ ~NothingToRelax(Running)

\* The *BROWSER_HTTP list an invocation computes from its merged options.
BrowserHttpList(invocation) ==
    getPossibleAttributeValues(gen.uniqueBrowsers,
                               invocation.headerOptions)[BrowserHttpNodeName]

\* The outermost invocation has returned to the caller of GetHeaders.
HeadersReturned == pc = "done" /\ op = "GetHeaders"

\* C12: a strict call whose requested browsers match no entry of the catalog
\* (its *BROWSER_HTTP list is empty) returns the over-constrained error and
\* no headers, and no invocation of the call has relaxed a class.
C12_StrictUnknownBrowser ==
    (/\ HeadersReturned
     /\ calls[1].headerOptions.Strict
     /\ BrowserHttpList(calls[1]) = <<>>)
    => /\ headers = OverConstrainedError
       /\ RelaxedInvocations = {}

\* GetHeaders has returned headers from its first invocation.
ReturnedDirectly == HeadersReturned /\ ~headers.err /\ Len(calls) = 1

\* C13: when GetHeaders returns headers without a fallback and without a
\* relaxation, the input sample it drew has a *BROWSER_HTTP of the list
\* computed from the merged options, an *OPERATING_SYSTEM of the merged
\* operatingSystems and, when the merged devices are not empty, a *DEVICE
\* of them, with and without user-agent hints.
C13_InputSampleWithinOptions ==
    ReturnedDirectly =>
        /\ slicesContains(BrowserHttpList(calls[1]),
                          MapGet(inputValues, BrowserHttpNodeName))
        /\ slicesContains(calls[1].headerOptions.OperatingSystems.elems,
                          MapGet(inputValues, OperatingSystemNodeName))
        /\ Len(calls[1].headerOptions.Devices.elems) > 0 =>
               slicesContains(calls[1].headerOptions.Devices.elems,
                              MapGet(inputValues, DeviceNodeName))

\* A call that relaxed three classes after the HTTP/1 fallback and returned
\* headers.
C10_Witness ==
    /\ pc = "done"
    /\ op = "GetHeaders"
    /\ ~headers.err
    /\ Cardinality(RelaxedInvocations) >= 3
    /\ \E i \in DOMAIN calls : calls[i].kind = "fallback"


\* The invocation calls[i] got its headers from an HTTP/1 fallback.
FellBack(i) ==
    /\ HeadersReturned
    /\ i + 1 \in DOMAIN calls
    /\ calls[i + 1].kind = "fallback"
    /\ ~calls[i].returned.err

\* The name the HTTP/1 fallback is to return a header under.
RewrittenName(name) ==
    CASE name \in {"sec-ch-ua-mobile", "sec-ch-ua-platform"} -> name
      [] name = "dnt" -> "DNT"
      [] name = "rtt" -> "RTT"
      [] name = "ect" -> "ECT"
      [] name \in {"user-agent", "User-Agent"} -> "User-Agent"
      [] name \in {"accept-language", "Accept-Language"} -> "Accept-Language"
      [] name \in {"connection", "Connection"} -> "Connection"
      [] name = "x-req" -> "X-Req"
      [] name = "sec-fetch-site" -> "Sec-Fetch-Site"
      [] name = "sec-fetch-mode" -> "Sec-Fetch-Mode"
      [] name = "sec-fetch-user" -> "Sec-Fetch-User"
      [] name = "sec-fetch-dest" -> "Sec-Fetch-Dest"
      [] name = "*DEVICE" -> "*device"

\* C14: when the merged HTTP version is "1" and the input sample is empty,
\* GetHeaders returns the headers of its re-invocation with HTTP version "2"
\* with every name rewritten (sec-ch-ua* unchanged, dnt/rtt/ect in upper case,
\* every other name pascal-cased): each header of the HTTP/2 result appears
\* under its rewritten name with an unchanged value, and nothing else appears.
C14_FallbackRewritesNames ==
    \A i \in DOMAIN calls :
        FellBack(i) =>
            LET headers2 == calls[i + 1].returned.m
                converted == calls[i].returned.m
            IN  /\ calls[i].headerOptions.HttpVersion = "1"
                /\ calls[i + 1].headerOptions.HttpVersion = "2"
                /\ DOMAIN converted = {RewrittenName(name) : name \in DOMAIN headers2}
                /\ \A name \in DOMAIN headers2 :
                       converted[RewrittenName(name)] = headers2[name]

\* C15: on every path that returns headers, each entry of
\* requestDependentHeaders is in the result under the caller's exact name
\* with the caller's value.
C15_RequestDependentHeadersWin ==
    (HeadersReturned /\ ~headers.err) =>
        \A k \in DOMAIN requestDependentHeaders :
            /\ k \in DOMAIN headers.m
            /\ headers.m[k] = requestDependentHeaders[k]

\* C16: no returned header has a name beginning with * or the value
\* *MISSING_VALUE*, whatever the sample and the request-dependent headers.
C16_NoInternalHeaders ==
    (HeadersReturned /\ ~headers.err) =>
        \A name \in DOMAIN headers.m :
            /\ ~HasPrefix(name, "*")
            /\ headers.m[name] # MissingValueDatasetToken


\* The browser of the generated sample, and the headers the invocation that
\* generated it returns.
SampledBrowser == prepareHttpBrowserObject(MapGet(result, BrowserHttpNodeName))
GeneratedHeaders == Running.returned.m

SecFetchNames ==
    {"sec-fetch-site", "sec-fetch-mode", "sec-fetch-user", "sec-fetch-dest",
     "Sec-Fetch-Site", "Sec-Fetch-Mode", "Sec-Fetch-User", "Sec-Fetch-Dest"}

PassesSecFetchGate(browser) ==
    /\ Len(browser.Version) > 0
    /\ \/ browser.Name = "chrome" /\ browser.Version[1] >= 76
       \/ browser.Name = "firefox" /\ browser.Version[1] >= 90
       \/ browser.Name = "edge" /\ browser.Version[1] >= 79

\* C17: if the sampled *BROWSER_HTTP is chrome >= 76, firefox >= 90 or
\* edge >= 79, the invocation sets sec-fetch site/mode/user/dest to same-site,
\* navigate, ?1, document, under the lower-case names when the version tag is
\* "2" and under the capitalised names otherwise; if it is not, none of the
\* four is written.
C17_SecFetch ==
    (HeadersReturned /\ ~headers.err) =>
        LET written == [name \in SecFetchNames \cap DOMAIN GeneratedHeaders |->
                           GeneratedHeaders[name]]
        IN  IF PassesSecFetchGate(SampledBrowser)
            THEN IF SampledBrowser.HttpVersion = "2"
                 THEN written = ("sec-fetch-site" :> "same-site")
                                @@ ("sec-fetch-mode" :> "navigate")
                                @@ ("sec-fetch-user" :> "?1")
                                @@ ("sec-fetch-dest" :> "document")
                 ELSE written = ("Sec-Fetch-Site" :> "same-site")
                                @@ ("Sec-Fetch-Mode" :> "navigate")
                                @@ ("Sec-Fetch-User" :> "?1")
                                @@ ("Sec-Fetch-Dest" :> "document")
            ELSE written = EmptyMap

\* An HTTP/1 browser passed the gate: the capitalised names were written.
C17_Witness ==
    /\ HeadersReturned
    /\ ~headers.err
    /\ SampledBrowser.CompleteString = "chrome/80|1"
    /\ MapGet(GeneratedHeaders, "Sec-Fetch-Site") = "same-site"


AcceptLanguageReturned == pc = "done" /\ op = "getAcceptLanguageField"

\* The text of tenths / 10 with one decimal.
OneDecimal(tenths) ==
    IF tenths >= 0
    THEN ToString(tenths \div 10) \o "." \o ToString(tenths % 10)
    ELSE "-" \o ToString((0 - tenths) \div 10) \o "." \o ToString((0 - tenths) % 10)

\* The tokens from index i on, each with q = 1.0 - 0.1 * (i - 1): i is the
\* position in the 1-based sequence, i - 1 the index of the token.
RECURSIVE TokensWithQuality(_, _)
TokensWithQuality(tokens, i) ==
    IF i > Len(tokens) THEN ""
    ELSE "," \o tokens[i] \o ";q=" \o OneDecimal(10 - (i - 1))
         \o TokensWithQuality(tokens, i + 1)

\* C18: for every non-empty locales list, the first token of the value
\* carries no ;q= and the token at index i >= 1 carries q = 1.0 - 0.1 * i.
C18_QualitySteps ==
    (AcceptLanguageReturned /\ Len(localesFromOptions) > 0) =>
        /\ Len(localesInAddingOrder) > 0
        /\ acceptLanguageFieldValue =
               localesInAddingOrder[1] \o TokensWithQuality(localesInAddingOrder, 2)

\* A value with more than ten tokens: the qualities go down to 0.0 and below.
C18_Witness == AcceptLanguageReturned /\ Len(localesInAddingOrder) > 11

\* How often x occurs in s.
Occurrences(s, x) == Cardinality({i \in DOMAIN s : s[i] = x})

\* C19: for every locales list the tokens of the value are a permutation of
\* the input locales: every input locale appears exactly once, and no other
\* token appears.
C19_TokensPermuteLocales ==
    AcceptLanguageReturned =>
        /\ Len(localesInAddingOrder) = Len(localesFromOptions)
        /\ \A x \in SeqToSet(localesFromOptions) \cup SeqToSet(localesInAddingOrder) :
               Occurrences(localesInAddingOrder, x) = Occurrences(localesFromOptions, x)


\* The headers first and second, visited in this order, follow the order
\* list: a header the list names comes before every header it names later
\* and before every header it does not name.
FollowsOrder(order, first, second) ==
    slicesContains(order, second) =>
        \E i, j \in DOMAIN order : i < j /\ order[i] = first /\ order[j] = second

\* C20: the value GetHeaders returns carries the header order: whichever way
\* the caller goes through the returned value, the headers named in the
\* browser's order list come first, in the order of the list, and the
\* remaining headers follow.
C20_ReturnCarriesOrder ==
    ReturnedDirectly =>
        \A first, second \in DOMAIN headers.m :
            first # second =>
                \A visit \in RangeOrders({first, second}) :
                    FollowsOrder(MapGetList(gen.headersOrder, SampledBrowser.Name),
                                 visit[1], visit[2])


\* The value an option takes when call-site options are merged over stored
\* ones option by option.
MergedOption(isSet, callSite, stored) == IF isSet THEN callSite ELSE stored

\* C27: GetHeaders merges the call-site options over the generator's stored
\* options per option: an option the call site sets takes the call-site
\* value, an option it leaves unset keeps the stored value; a generator
\* constructed with strict=true stays strict when the call does not set
\* strict.
C27_MergePerOption ==
    Len(calls) > 0 =>
        LET stored == gen.globalOptions
            has == calls[1].hasOptions
            callSite == calls[1].options
            merged == calls[1].headerOptions
        IN  /\ merged.Browsers =
                   MergedOption(has /\ ~callSite.Browsers.isNil,
                                callSite.Browsers, stored.Browsers)
            /\ merged.BrowserListQuery =
                   MergedOption(has /\ callSite.BrowserListQuery # "",
                                callSite.BrowserListQuery, stored.BrowserListQuery)
            /\ merged.OperatingSystems =
                   MergedOption(has /\ ~callSite.OperatingSystems.isNil,
                                callSite.OperatingSystems, stored.OperatingSystems)
            /\ merged.Devices =
                   MergedOption(has /\ ~callSite.Devices.isNil,
                                callSite.Devices, stored.Devices)
            /\ merged.Locales =
                   MergedOption(has /\ ~callSite.Locales.isNil,
                                callSite.Locales, stored.Locales)
            /\ merged.HttpVersion =
                   MergedOption(has /\ callSite.HttpVersion # "",
                                callSite.HttpVersion, stored.HttpVersion)
            /\ merged.Strict =
                   MergedOption(has /\ callSite.Strict, callSite.Strict, stored.Strict)


ProbabilitiesReturned == pc = "done" /\ op = "getProbabilitiesGivenKnownValues"

\* The subtree has a deeper child with an entry for pv; it has a skip child.
HasDeeperEntry(subtree, pv) ==
    /\ IsMap(subtree)
    /\ "deeper" \in DOMAIN subtree.m
    /\ IsMap(subtree.m["deeper"])
    /\ pv \in DOMAIN subtree.m["deeper"].m
HasSkipChild(subtree) == IsMap(subtree) /\ "skip" \in DOMAIN subtree.m

\* The subtree reached from parent i on: into deeper[pv] when that exists,
\* otherwise into skip when that exists, otherwise no further.
RECURSIVE ReachedSubtree(_, _, _, _)
ReachedSubtree(subtree, parentNames, i, assigned) ==
    IF i > Len(parentNames) THEN subtree
    ELSE LET pv == MapGet(assigned, parentNames[i])
         IN  IF HasDeeperEntry(subtree, pv)
             THEN ReachedSubtree(subtree.m["deeper"].m[pv], parentNames, i + 1, assigned)
             ELSE IF HasSkipChild(subtree)
             THEN ReachedSubtree(subtree.m["skip"], parentNames, i + 1, assigned)
             ELSE subtree

\* The subtrees of a CPT at the level of parent i.
RECURSIVE SubtreesAt(_, _)
SubtreesAt(cpt, i) ==
    IF i = 1 THEN {cpt}
    ELSE UNION {(IF HasSkipChild(t) THEN {t.m["skip"]} ELSE {})
                \cup (IF IsMap(t) /\ "deeper" \in DOMAIN t.m /\ IsMap(t.m["deeper"])
                      THEN {t.m["deeper"].m[v] : v \in DOMAIN t.m["deeper"].m}
                      ELSE {}) :
                t \in SubtreesAt(cpt, i - 1)}

\* Every level of parent i is a skip.
SkipsParent(n, i) ==
    \A t \in SubtreesAt(n.cpt, i) :
        HasSkipChild(t) /\ "deeper" \notin DOMAIN t.m

\* C28: getProbabilitiesGivenKnownValues walks the CPT parent by parent
\* (deeper[pv] when it exists, otherwise skip when it exists, otherwise it
\* stops) and returns exactly the keys of the reached subtree whose values are
\* numbers; when every level of a parent is a skip, the value of that parent
\* does not change the distribution.
C28_WalkByParents ==
    ProbabilitiesReturned =>
        LET n == net[idx]
            reached == ReachedSubtree(n.cpt, n.parentNames, 1, sampleSoFar)
        IN  /\ DOMAIN result =
                   IF IsMap(reached)
                   THEN {k \in DOMAIN reached.m : IsFloat(reached.m[k])}
                   ELSE {}
            /\ \A k \in DOMAIN result : result[k] = reached.m[k].w
            /\ \A i \in DOMAIN n.parentNames :
                   SkipsParent(n, i) =>
                       \A v \in SeedVals :
                           getProbabilitiesGivenKnownValues(
                               n, MapPut(sampleSoFar, n.parentNames[i], v)) = result

\* The distribution of a node that ignores its parent was asked for.
C28_Witness ==
    /\ ProbabilitiesReturned
    /\ Len(net[idx].parentNames) > 0
    /\ SkipsParent(net[idx], 1)
    /\ net[idx].parentNames[1] \in DOMAIN sampleSoFar
    /\ DOMAIN result # {}


\* The support of the node at depth d, given the assignment so far.
SupportAt(d) == DOMAIN getProbabilitiesGivenKnownValues(net[d], sampleSoFar)

\* At every depth the banned values are distinct and no more than the
\* depth's support has values.
BansWithinSupport ==
    (pc = "sampling" /\ op = "GenerateConsistentSampleWhenPossible") =>
        \A d \in DOMAIN stack :
            LET bannedValues == stack[d].bannedValues
            IN  /\ \A i, j \in DOMAIN bannedValues :
                       bannedValues[i] = bannedValues[j] => i = j
                /\ Len(bannedValues) <= Cardinality(SupportAt(d))

\* The search has ended with a complete sample or with the empty map.
SearchEnded ==
    /\ pc = "done"
    /\ op = "GenerateConsistentSampleWhenPossible"
    /\ result = EmptyMap \/ DOMAIN result = NodeNames(net)

\* C29: the constrained sampler always terminates: at each depth a retry
\* bans the value that just failed, so no depth makes more attempts than its
\* support has values, and the search ends with a complete sample or with
\* the empty map.
C29_SamplerTerminates ==
    /\ []BansWithinSupport
    /\ (op = "GenerateConsistentSampleWhenPossible") ~> SearchEnded

\* A search that had to ban a value at some depth has ended with a sample.
C29_Witness == SearchEnded /\ backtracked /\ result # EmptyMap

\* C's first level branches on A = x and falls back to a skip subtree
\* otherwise; both subtrees branch on B below it.
NetSkipAbove ==
    << NodeDef("A", <<>>, <<"x", "y">>, Leaf(("x" :> 1) @@ ("y" :> 1))),
       NodeDef("B", <<>>, <<"x", "y">>, Leaf(("x" :> 1) @@ ("y" :> 1))),
       NodeDef("C", <<"A", "B">>, <<"x", "y">>,
               DeeperSkip("x" :> Deeper("x" :> Leaf("x" :> 2)),
                          Deeper("y" :> Leaf("y" :> 2)))) >>

\* The closure over the networks above and over one whose table has a skip
\* level above a deeper level.
InitClosurePaths ==
    /\ net \in Networks \cup {NetSkipAbove}
    /\ gen = NewHeaderGenerator(FALSE, ZeroOptions, DataFiles)
    /\ localesFromOptions = <<>>
    /\ requestedBrowsers = <<>>
    /\ NoFingerprintGenerator
    /\ InitIdle

SpecClosurePaths == InitClosurePaths /\ [][NextClosure]_vars

\* The edge of a path that runs through a skip child: it carries no value.
SkipEdge == "skip"

\* The root-to-leaf paths of a CPT with the given number of levels: the
\* edges taken and the values the leaf holds.
RECURSIVE CptPaths(_, _)
CptPaths(cpt, levels) ==
    IF levels = 0 THEN {[edges |-> <<>>, leaf |-> DOMAIN cpt.m]}
    ELSE LET below(edge, subtree) ==
                 {[edges |-> <<edge>> \o p.edges, leaf |-> p.leaf] :
                      p \in CptPaths(subtree, levels - 1)}
         IN  (IF HasSkipChild(cpt) THEN below(SkipEdge, cpt.m["skip"]) ELSE {})
             \cup
             (IF IsMap(cpt) /\ "deeper" \in DOMAIN cpt.m
              THEN UNION {below(v, cpt.m["deeper"].m[v]) : v \in DOMAIN cpt.m["deeper"].m}
              ELSE {})

\* The paths whose leaf holds at least one allowed value.
AllowedPaths(node, values) ==
    {p \in CptPaths(node.cpt, Len(node.parentNames)) : p.leaf \cap SeqToSet(values) # {}}

\* The allowed paths that run through deeper children only.
AllowedDeeperPaths(node, values) ==
    {p \in AllowedPaths(node, values) : \A i \in DOMAIN p.edges : p.edges[i] # SkipEdge}

\* The values found at position i of the paths.
ValuesAt(paths, i) == {p.edges[i] : p \in paths} \ {SkipEdge}

\* The values a per-constraint set gives a name: none when it has no list.
InducedValues(set, name) == IF name \in DOMAIN set THEN SeqToSet(set[name]) ELSE {}

\* The per-constraint set that the closure built for key k of P.
IsSetOf(set, k) ==
    /\ k \in DOMAIN set
    /\ DOMAIN set \subseteq {k} \cup SeqToSet(NodeByName(net, k).parentNames)
    /\ set[k] = closureIn[k]

\* Every list of P is non-empty, so that the closure visits every key.
VisitsEveryKey == \A k \in DOMAIN closureIn : Len(closureIn[k]) > 0

\* C30, as stated: for a constrained node, the list induced for
\* parentNames[i] is exactly the set of values at position i of all
\* root-to-leaf paths of the node's CPT whose leaf holds an allowed value,
\* whether the levels branch by deeper, by skip, or by both.
C30_InducedListsFromAllPaths ==
    (Closed /\ VisitsEveryKey) =>
        \A k \in DOMAIN closureIn \cap NodeNames(net) :
            LET node == NodeByName(net, k)
            IN  \E j \in DOMAIN closureOut.sets :
                   /\ IsSetOf(closureOut.sets[j], k)
                   /\ \A i \in DOMAIN node.parentNames :
                         InducedValues(closureOut.sets[j], node.parentNames[i])
                             = ValuesAt(AllowedPaths(node, closureIn[k]), i)

\* C30, amended: for a constrained node, the list induced for parentNames[i]
\* is exactly the set of values at position i of the root-to-leaf paths that
\* run through deeper children only and whose leaf holds an allowed value; a
\* path through a skip child contributes to no position.
C30_InducedListsFromDeeperPaths ==
    (Closed /\ VisitsEveryKey) =>
        \A k \in DOMAIN closureIn \cap NodeNames(net) :
            LET node == NodeByName(net, k)
            IN  \E j \in DOMAIN closureOut.sets :
                   /\ IsSetOf(closureOut.sets[j], k)
                   /\ \A i \in DOMAIN node.parentNames :
                         InducedValues(closureOut.sets[j], node.parentNames[i])
                             = ValuesAt(AllowedDeeperPaths(node, closureIn[k]), i)

\* The closure induced lists for both parents of a node from two paths, and
\* one of the lists holds two values.
C30_Witness ==
    /\ Closed
    /\ VisitsEveryKey
    /\ \E k \in DOMAIN closureIn \cap NodeNames(net) :
          LET node == NodeByName(net, k)
          IN  /\ Len(node.parentNames) = 2
              /\ Cardinality(AllowedDeeperPaths(node, closureIn[k])) >= 2
              /\ \E j \in DOMAIN closureOut.sets :
                    /\ IsSetOf(closureOut.sets[j], k)
                    /\ \E i \in DOMAIN node.parentNames :
                          Cardinality(InducedValues(closureOut.sets[j],
                                                    node.parentNames[i])) = 2

\* GetFingerprint has returned.
FingerprintDone == pc = "done" /\ op = "GetFingerprint"

\* It returned a fingerprint; it returned an error.
FingerprintReturned == FingerprintDone /\ fingerprint.err = ""
FingerprintFailed == FingerprintDone /\ fingerprint.err # ""

\* The counters of one call stay within the cap, no call of GetHeaders and no
\* sampling is made after the tenth iteration, a returned fingerprint has a
\* screen that is not nil, and a loop that ran out ends in the error.
AttemptsWithinCap ==
    /\ generateRetries <= MaxGenerateRetries
    /\ getHeadersCalls <= MaxGenerateRetries
    /\ samplings <= MaxGenerateRetries
    /\ generateRetries = MaxGenerateRetries =>
           getHeadersCalls = MaxGenerateRetries /\ pc \in {"retry", "done"}
    /\ FingerprintReturned =>
           /\ "screen" \in DOMAIN fingerprint.Fingerprint
           /\ fingerprint.Fingerprint["screen"].kind # "nil"
    /\ (FingerprintDone /\ generateRetries = MaxGenerateRetries) =>
           fingerprint.err = RetriesExhausted

\* C21: one GetFingerprint call makes at most 10 attempts (at most 10 calls
\* of GetHeaders and at most 10 samplings of the fingerprint network), never
\* goes beyond the tenth, and returns: with an error when no attempt gave a
\* fingerprint whose screen is not nil.
C21_AtMostTenAttempts ==
    /\ []AttemptsWithinCap
    /\ InGetFingerprint ~> FingerprintDone

\* A call failed after ten calls of GetHeaders and ten samplings.
C21_Witness ==
    /\ FingerprintFailed
    /\ fingerprint.err = RetriesExhausted
    /\ getHeadersCalls = MaxGenerateRetries
    /\ samplings = MaxGenerateRetries

\* C22: GetFingerprint reports that the retries are exhausted only when
\* GetHeaders succeeded in each of the 10 attempts and the fingerprint was
\* empty or its screen nil each time; when GetHeaders fails with the
\* over-constrained error, GetFingerprint returns that error.
C22_HeaderErrorSurfaces ==
    FingerprintDone =>
        /\ fingerprint.err = RetriesExhausted =>
               headerErrors = 0 /\ samplings = MaxGenerateRetries
        /\ headerErrors > 0 => fingerprint.err = "over-constrained"

\* The screen option in force: that of the call when it has one, otherwise
\* the one the generator stores.
ScreenInForce ==
    IF fingerprintOptions.hasOptions /\ ~fingerprintOptions.options.Screen.isNil
    THEN fingerprintOptions.options.Screen
    ELSE fingerprintGlobalOptions.Screen

\* The screen lies in the window: a bound that is absent does not restrict.
LiesInWindow(window, screen) ==
    /\ window.MinWidth.isNil \/ screen.Width >= window.MinWidth.v
    /\ window.MaxWidth.isNil \/ screen.Width <= window.MaxWidth.v
    /\ window.MinHeight.isNil \/ screen.Height >= window.MinHeight.v
    /\ window.MaxHeight.isNil \/ screen.Height <= window.MaxHeight.v

\* The values of the screen node's domain that decode to a screen in the
\* window.
MatchingScreens(window) ==
    IF "screen" \notin NodeNames(fingerprintGeneratorNetwork) THEN {}
    ELSE {val \in SeqToSet(NodeByName(fingerprintGeneratorNetwork, "screen").possibleValues) :
             /\ val \in StringifiedValues
             /\ ~UnmarshalScreen(val).err
             /\ LiesInWindow(window, UnmarshalScreen(val))}

\* C23: when GetFingerprint returns a fingerprint and the window of the
\* screen option matches at least one value of the screen node's domain, the
\* returned screen is one of the matching values: its width and its height
\* lie within the bounds the option gives.
C23_ScreenInWindow ==
    (/\ FingerprintReturned
     /\ ~ScreenInForce.isNil
     /\ MatchingScreens(ScreenInForce.v) # {}) =>
        /\ fingerprint.Fingerprint["screen"].kind = "json"
        /\ LiesInWindow(ScreenInForce.v, fingerprint.Fingerprint["screen"].screen)
        /\ \E val \in MatchingScreens(ScreenInForce.v) :
               fingerprint.Fingerprint["screen"].screen = UnmarshalScreen(val)

\* A fingerprint was returned under a window that matches one value of the
\* five of the domain.
C23_Witness ==
    /\ FingerprintReturned
    /\ ~ScreenInForce.isNil
    /\ Cardinality(MatchingScreens(ScreenInForce.v)) = 1
    /\ fingerprint.Fingerprint["screen"].screen.Width = 1440

\* Strict is set in the options the generator stores or in those of the call.
StrictInForce ==
    \/ gen.globalOptions.Strict
    \/ /\ fingerprintOptions.hasOptions
       /\ ~fingerprintOptions.options.HeaderGeneratorOptions.isNil
       /\ fingerprintOptions.options.HeaderGeneratorOptions.v.Strict

\* C24: when a screen option is set and no value of the screen node's domain
\* lies in its window, GetFingerprint fails with the over-constrained error
\* of the closure if strict is set in the generator's or in the call's
\* options, and otherwise drops the screen constraint and goes on.
C24_EmptyWindow ==
    (/\ InGetFingerprint
     /\ ~ScreenInForce.isNil
     /\ MatchingScreens(ScreenInForce.v) = {}) =>
        IF StrictInForce
        THEN FingerprintFailed /\ fingerprint.err = "over-constrained"
        ELSE /\ "screen" \notin DOMAIN filteredValues
             /\ fingerprint.err # "over-constrained"

\* A caller's own call of GetHeaders has returned.
GetHeadersDone == pc = "done" /\ op = "GetHeaders" /\ ~InGetFingerprint

\* C26: when a network archive of a generator did not load (the network has
\* no nodes), every call of GetHeaders and of GetFingerprint on the generator
\* returns an error, and neither headers nor a fingerprint.
C26_UnusableNetworkIsVisible ==
    /\ (/\ GetHeadersDone
        /\ \/ Len(gen.inputGeneratorNetwork) = 0
           \/ Len(gen.headerGeneratorNetwork) = 0) =>
           headers.err /\ headers.m = EmptyMap
    /\ (/\ FingerprintDone
        /\ \/ Len(gen.inputGeneratorNetwork) = 0
           \/ Len(gen.headerGeneratorNetwork) = 0
           \/ Len(fingerprintGeneratorNetwork) = 0) =>
           fingerprint.err # "" /\ fingerprint.Fingerprint = EmptyMap

\* ------------------------------------------------------------------- C25

\* What is loaded or stored at construction: the networks and data of the
\* header generator with its stored options, and the network and the stored
\* options of the fingerprint generator.
Loaded == <<gen, fingerprintGeneratorNetwork, fingerprintGlobalOptions>>

\* The maps, lists and options the caller passed to the call that is running.
CallerArguments ==
    CASE InGetFingerprint -> <<fingerprintOptions, requestDependentHeaders>>
      [] op = "GenerateSample" -> <<inputValues>>
      [] op = "GenerateConsistentSampleWhenPossible" -> <<valuePossibilities>>
      [] op = "GetConstraintClosure" -> <<closureIn>>
      [] op = "GetHeaders" -> <<requestDependentHeaders, userAgentValues,
                                calls[1].hasOptions, calls[1].options>>
      [] OTHER -> <<>>

\* A step of a running call, from after its entry up to its return.
WithinCall == pc # "idle" /\ pc' # "idle"

RECURSIVE Ancestors(_, _)
Ancestors(network, name) ==
    LET parents == SeqToSet(NodeByName(network, name).parentNames)
    IN  parents \cup UNION {Ancestors(network, p) : p \in parents}

\* The values a node takes in the complete assignments consistent with P.
ValuesUnder(network, P, name) == {a[name] : a \in ConsistentAssignments(network, P)}

\* The constraints P leave the node fewer values than it has without them.
RestrictedBy(network, P, name) ==
    /\ ValuesUnder(network, P, name) # {}
    /\ ValuesUnder(network, P, name) # ValuesUnder(network, EmptyMap, name)

\* C31: when the closure succeeds with a non-empty result, it holds a value
\* list for every ancestor of a constrained node whose values the
\* constraints restrict, the ancestors above the direct parents included.
C31_ClosureReachesEveryAncestor ==
    (Closed /\ ~closureOut.err /\ closureOut.result # EmptyMap) =>
        \A k \in DOMAIN closureIn \cap NodeNames(net) :
            \A ancestor \in Ancestors(net, k) \ SeqToSet(NodeByName(net, k).parentNames) :
                RestrictedBy(net, closureIn, ancestor) =>
                    ancestor \in DOMAIN closureOut.result

\* ------------------------------------------------------------------- C32

\* The invocations that are HTTP/2 fallbacks.
Fallbacks == {i \in DOMAIN calls : calls[i].kind = "fallback"}

\* The invocations of one top-level call: there is at most one fallback, no
\* invocation from the fallback on has the merged HTTP version "1", and an
\* invocation with the merged version "1" re-invokes by the fallback only.
OneFallbackThenHttp2 ==
    /\ Cardinality(Fallbacks) <= 1
    /\ \A i \in Fallbacks :
          \A j \in i..Len(calls) : calls[j].headerOptions.HttpVersion = "2"
    /\ \A i \in 2..Len(calls) :
          calls[i - 1].headerOptions.HttpVersion = "1" => calls[i].kind = "fallback"

\* A step from an empty input sample under the merged version "1" is the
\* fallback, whatever strict is.
FallbackComesFirst ==
    (NoInputSample /\ Running.headerOptions.HttpVersion = "1") =>
        /\ Len(calls') = Len(calls) + 1
        /\ calls'[Len(calls')].kind = "fallback"

\* C32: with the merged HTTP version "1" and an empty input sample the
\* HTTP/2 fallback is taken, before any relaxation and whatever strict is; a
\* top-level call makes at most one fallback, and the fallback invocation and
\* the relaxed invocations under it never have the merged version "1".
C32_FallbackOnceThenHttp2 == []OneFallbackThenHttp2 /\ [][FallbackComesFirst]_vars

\* A call fell back to HTTP/2, the fallback relaxed a class, and the call has
\* returned.
C32_Witness ==
    /\ HeadersReturned
    /\ Len(calls) >= 3
    /\ calls[2].kind = "fallback"
    /\ calls[3].kind = "relaxed"

\* ------------------------------------------------------------------- C33

\* What a frame of the sampler can still try: twice the values of its node
\* that are not banned, less one while a value it drew is being explored.
FrameBudget(frame, node) ==
    2 * (Len(node.possibleValues) - Len(frame.bannedValues))
        - (IF frame.sampleValue # "" /\ ~slicesContains(frame.bannedValues, frame.sampleValue)
           THEN 1 ELSE 0)

\* More than any frame's budget in the network.
BudgetBase(network) ==
    2 * Cardinality(UNION {SeqToSet(network[i].possibleValues) : i \in DOMAIN network}) + 2

RECURSIVE Power(_, _)
Power(b, n) == IF n = 0 THEN 1 ELSE b * Power(b, n - 1)

\* The budgets of the frames, the outermost frame weighing most.
RECURSIVE SamplerBudget(_, _, _)
SamplerBudget(network, frames, d) ==
    IF d > Len(network) THEN 0
    ELSE (IF d <= Len(frames) THEN FrameBudget(frames[d], network[d]) ELSE 0)
             * Power(BudgetBase(network), Len(network) - d)
         + SamplerBudget(network, frames, d + 1)

\* The re-invocations the running invocation can still cause: the fallback
\* hands on merged options, which set up to five classes, so it weighs six.
InvocationBudget ==
    (IF Running.headerOptions.HttpVersion = "1" THEN Len(relaxationOrder) + 1 ELSE 0)
    + (IF Running.hasOptions THEN Cardinality(SetClasses(Running.options)) ELSE 0)

\* More than the steps one invocation takes in one of its phases.
PhaseBase ==
    Power(BudgetBase(gen.inputGeneratorNetwork), Len(gen.inputGeneratorNetwork))
    + Len(gen.headerGeneratorNetwork) + 2

\* A measure of what a running GetHeaders call can still do: the
\* re-invocations first, then the phase of the running invocation, then the
\* steps left in the phase.
HeadersVariant ==
    IF op # "GetHeaders" \/ pc = "done" THEN 0
    ELSE InvocationBudget * 5 * PhaseBase
         + (CASE pc = "sampling" ->
                     4 * PhaseBase + SamplerBudget(net, stack, 1)
              [] pc = "inputSample" -> 3 * PhaseBase
              [] pc = "generating" -> 2 * PhaseBase + (Len(net) + 1 - idx)
              [] pc = "generatedSample" -> PhaseBase)

\* The running call has a next step: the draw of the sampler has an outcome,
\* an empty input sample leads to a re-invocation or to the error, a
\* non-empty one to the header network, whose draws have outcomes, and the
\* generated sample to the headers that are returned.
CanStep ==
    CASE pc = "sampling" -> CurrentDraws # {}
      [] pc = "inputSample" ->
             (/\ DOMAIN result = {}
              /\ \/ Running.headerOptions.HttpVersion = "1"
                 \/ MayRelax(Running.headerOptions,
                             RelaxationIndex(Running.hasOptions, Running.options)))
             => UserAgentConstraints(gen.headerGeneratorNetwork, userAgentValues) # {}
      [] pc = "generating" ->
             (idx <= Len(net) /\ NeedsDraw(sampleSoFar, net[idx].name))
             => NodeSample(net[idx], sampleSoFar) # {}
      [] pc = "generatedSample" ->
             \E h \in HeadersOfSample(gen.headersOrder, Running.headerOptions, result,
                                      requestDependentHeaders) :
                 ReturnThrough(gen.headersOrder, calls, Len(calls), h) # {}
      [] OTHER -> FALSE

\* A running call can take a step, the measure is a natural number, and one
\* call makes at most one fallback and five relaxed invocations, each relaxed
\* one with fewer classes set in its options than its caller had.
HeadersCallBounded ==
    /\ (op = "GetHeaders" /\ pc # "done") => CanStep
    /\ HeadersVariant >= 0
    /\ Cardinality(Fallbacks) <= 1
    /\ Cardinality(RelaxedInvocations) <= Len(relaxationOrder)
    /\ \A i \in RelaxedInvocations :
          Cardinality(SetClasses(calls[i].options))
              < Cardinality(SetClasses(calls[i - 1].options))

\* C33: every GetHeaders call ends with headers or the error after a bounded
\* number of re-invocations: a running call is never stuck, every step of it
\* lowers a natural-valued measure, each relaxation lowers the number of
\* ladder classes set in the options, and one call makes at most one
\* fallback and five relaxed invocations.
C33_GetHeadersTerminates ==
    /\ []HeadersCallBounded
    /\ [][op = "GetHeaders" => HeadersVariant' < HeadersVariant]_vars

\* A call has returned after the fallback and five relaxations.
C33_Witness ==
    /\ HeadersReturned
    /\ Cardinality(Fallbacks) = 1
    /\ Cardinality(RelaxedInvocations) = 5

\* ------------------------------------------------------------------- C34

\* The major version of a catalog entry (0 when it has no version).
MajorVersion(entry) == IF Len(entry.Version) > 0 THEN entry.Version[1] ELSE 0

\* The catalog entry is one the requested browser asks for: the same name,
\* a major version within the bounds that are not 0, and the requested HTTP
\* version, "0" and "" asking for any.
Requests(browser, entry) ==
    /\ entry.Name = browser.Name
    /\ browser.MinVersion # 0 => MajorVersion(entry) >= browser.MinVersion
    /\ browser.MaxVersion # 0 => MajorVersion(entry) <= browser.MaxVersion
    /\ browser.HttpVersion \notin {"0", ""} => entry.HttpVersion = browser.HttpVersion

BrowserHttpOptionsReturned == pc = "done" /\ op = "getBrowserHttpOptions"

\* C34: getBrowserHttpOptions returns exactly the complete strings of the
\* catalog entries that some requested browser asks for, and nothing that is
\* not in the catalog.
C34_ExactlyTheRequestedEntries ==
    BrowserHttpOptionsReturned =>
        SeqToSet(returnedBrowserHttpOptions) =
            {gen.uniqueBrowsers[j].CompleteString :
                j \in {k \in DOMAIN gen.uniqueBrowsers :
                          \E i \in DOMAIN requestedBrowsers :
                              Requests(requestedBrowsers[i], gen.uniqueBrowsers[k])}}

\* Two requests, one bounded below at an entry's own major version and one
\* bounded above at another's, returned one entry each and left out others.
C34_Witness ==
    /\ BrowserHttpOptionsReturned
    /\ Len(requestedBrowsers) = 2
    /\ requestedBrowsers[1].MinVersion = 120
    /\ requestedBrowsers[2].MaxVersion = 80
    /\ requestedBrowsers[2].HttpVersion = "0"
    /\ returnedBrowserHttpOptions = <<"chrome/120|2", "chrome/80|1">>

\* The closure the claim matches to an element's HTTP-version tag.
ClosureOfTag(httpV, http1Constraints, http2Constraints) ==
    IF httpV = "1" THEN http1Constraints ELSE http2Constraints

\* The lists the claim says the two closures leave of the option lists.
ListsKeptByClosures(possibleAttributeValues, http1Constraints, http2Constraints) ==
    [key \in DOMAIN possibleAttributeValues |->
        IF key = BrowserHttpNodeName
        THEN SelectSeq(possibleAttributeValues[key],
                       LAMBDA x :
                           LET parts == SplitOnBar(x)
                               httpV == IF Len(parts) > 1 THEN parts[2] ELSE ""
                           IN  slicesContains(
                                   MapGetList(ClosureOfTag(httpV, http1Constraints,
                                                           http2Constraints).m,
                                              "*BROWSER"),
                                   parts[1]))
        ELSE SelectSeq(possibleAttributeValues[key],
                       LAMBDA x :
                           \/ slicesContains(MapGetList(http1Constraints.m, key), x)
                           \/ slicesContains(MapGetList(http2Constraints.m, key), x))]

\* C35: when GetHeaders is given user-agent hints, the lists its input
\* network is sampled against are the option lists filtered by the two
\* closures: a *BROWSER_HTTP element stays exactly when its browser part is
\* in the *BROWSER list of the closure matching its HTTP-version tag, and a
\* value of any other key stays exactly when one of the two closures lists it.
C35_HintsFilterByMatchingClosure ==
    (op = "GetHeaders" /\ pc = "sampling" /\ Len(userAgentValues) > 0)
        => \E c \in UserAgentConstraints(gen.headerGeneratorNetwork, userAgentValues) :
              valuePossibilities
                  = ListsKeptByClosures(
                        getPossibleAttributeValues(gen.uniqueBrowsers,
                                                   Running.headerOptions),
                        c[1], c[2])

\* The headers carry a user agent under one of the two names.
CarriesUserAgent(headersMap) ==
    "User-Agent" \in DOMAIN headersMap \/ "user-agent" \in DOMAIN headersMap

\* The user agent the headers carry: User-Agent first, then user-agent.
CarriedUserAgent(headersMap) ==
    IF "User-Agent" \in DOMAIN headersMap THEN headersMap["User-Agent"]
                                         ELSE headersMap["user-agent"]

\* C36: every result GetFingerprint returns holds the headers of the attempt
\* that produced the fingerprint, these headers carry a user agent (under
\* User-Agent, else under user-agent), and the fingerprint's userAgent is that
\* user agent; the sampling of an attempt whose headers carry no user agent
\* comes back empty, so that attempt yields no result.
C36_FingerprintMatchesReturnedHeaders ==
    /\ FingerprintReturned
           => /\ fingerprint.Headers = headers.m
              /\ CarriesUserAgent(fingerprint.Headers)
              /\ "userAgent" \in DOMAIN fingerprint.Fingerprint
              /\ fingerprint.Fingerprint["userAgent"].kind = "text"
              /\ fingerprint.Fingerprint["userAgent"].text
                     = CarriedUserAgent(fingerprint.Headers)
    /\ (FingerprintSampled /\ ~CarriesUserAgent(headers.m)) => DOMAIN result = {}

\* GetFingerprint has returned a result on the generator whose header network
\* lacks a user agent for Chrome 120 on Linux, after more than one attempt
\* reached the sampling of the fingerprint network.
C36_Witness ==
    /\ FingerprintReturned
    /\ gen.headerGeneratorNetwork = HeaderNetworkWithMissingUserAgent
    /\ samplings >= 2
    /\ generateRetries >= 1

\* One of the two samplers of a node has returned.
NodeSampled == pc = "done" /\ op \in {"Sample", "SampleAccordingToRestrictions"}

\* The support of the call: every key of the distribution for Sample; for
\* SampleAccordingToRestrictions the keys that are allowed and not banned.
SupportOfCall ==
    LET node == net[idx]
        probabilities == getProbabilitiesGivenKnownValues(node, sampleSoFar)
    IN  IF op = "Sample" THEN DOMAIN probabilities
        ELSE {v \in DOMAIN probabilities :
                 /\ ~slicesContains(stack[1].bannedValues, v)
                 /\ \/ Len(valuePossibilities[node.name]) = 0
                    \/ slicesContains(valuePossibilities[node.name], v)}

\* C37: over leaves with non-negative weights of any sum, Node.Sample and
\* SampleAccordingToRestrictions never return a value of weight 0 when some
\* value of the support has a positive weight.
C37_NoZeroWeightValue ==
    NodeSampled
        => LET probabilities == getProbabilitiesGivenKnownValues(net[idx], sampleSoFar)
           IN  (\E v \in SupportOfCall : probabilities[v] > 0)
                   => Weight(probabilities, stack[1].sampleValue) > 0

====
